---- MODULE Spec2Model ----
(***************************************************************************)
(* machine-memory: the on-disk store (memories table, memories_fts shadow  *)
(* index, triggers, user_version), the schema migration run on open, the   *)
(* write commands (add, import, update, deprecate, delete), the read-mode  *)
(* open, the busy-retry loop around every storage call, and two write      *)
(* sessions inserting into one store file.                                 *)
(*                                                                         *)
(* A text is a sequence of lowercase alphanumeric words; the FTS5          *)
(* tokenizer of a text is the set of its words.  NULL superseded_by is 0   *)
(* (ids are positive).  An absent command-line flag is the empty set, a    *)
(* given one the singleton of its value.                                   *)
(***************************************************************************)
EXTENDS Integers, Sequences, FiniteSets, Bags, TLC

VARIABLES
  db,     \* the store file
  last,   \* the invocation just finished
  ncmd,   \* invocations so far
  retry,  \* one call of withBusyRetry
  conc,   \* two write sessions on one store file
  rw,     \* a writing process and a read session on one store file
  cert,   \* the certainty column of the rows, and the certainty last printed
  call,   \* one call of a function of the engine: its arguments and its result
  proc    \* two processes at work on one store file: the write lock and each
          \* process's position, retries and uncommitted work

vars == <<db, last, ncmd, retry, conc, rw, cert, call, proc>>

(***************************************************************************)
(* Program constants and bounds                                            *)
(***************************************************************************)
SCHEMA_VERSION == 1
BUSY_RETRIES == 6
BUSY_BACKOFF_MS == 25

\* largest id AUTOINCREMENT hands out in a run
MaxId == 2
\* longest import file
MaxImport == 1
\* invocations of the tool in a run
MaxCmds == 2
\* inserts each of the two concurrent sessions issues
MaxInserts == 2
\* write transactions of the writing process, and reads of the read session
MaxTxns == 2
MaxReads == 2
\* Entries in the file of the single import of SpecImport.
MaxEntries == 2
\* rows whose certainty column is followed
MaxCertRows == 3

RequiredColumns ==
  {"memory_type", "status", "superseded_by", "source_agent", "last_updated_by",
   "update_count", "certainty", "refs", "expires_after_days"}

MigrationColumns ==
  <<"memory_type", "status", "superseded_by", "source_agent", "last_updated_by",
    "update_count", "certainty", "refs", "expires_after_days">>

AllTriggers == {"memories_ai", "memories_ad", "memories_au"}

MEMORY_STATUSES == {"active", "deprecated", "superseded_by"}

(***************************************************************************)
(* Values the commands are run with                                        *)
(***************************************************************************)
ContentVals == {<<"auth", "jwt">>, <<"the", "cache">>}
TagVals == {<<>>, <<"auth">>}
ContextVals == {<<>>, <<"cache">>}

Words(text) == {text[i] : i \in DOMAIN text}

(***************************************************************************)
(* The store file                                                          *)
(***************************************************************************)
NoRows == [i \in {} |-> 0]

Shadow(id, row) ==
  [rowid |-> id, content |-> row.content, tags |-> row.tags, context |-> row.context]

ShadowWords(e) == Words(e.content) \cup Words(e.tags) \cup Words(e.context)

AllShadows(rows) == {Shadow(i, rows[i]) : i \in DOMAIN rows}

\* A row as the table's column defaults make it (legacy rows get the same
\* values when ALTER TABLE ADD COLUMN fills the new columns in).
DefaultRow(content, tags, context) ==
  [content |-> content, tags |-> tags, context |-> context,
   status |-> "active", superseded_by |-> 0, update_count |-> 0]

Uninitialized ==
  [tables |-> {}, columns |-> {}, triggers |-> {}, user_version |-> 0,
   journal |-> "delete", rows |-> NoRows, seq |-> 0, fts |-> EmptyBag]

\* A store written by the first release: base columns only, index and triggers.
LegacyBase(rows) ==
  [tables |-> {"memories", "memories_fts"}, columns |-> {}, triggers |-> AllTriggers,
   user_version |-> 0, journal |-> "wal", rows |-> rows,
   seq |-> Cardinality(DOMAIN rows), fts |-> SetToBag(AllShadows(rows))]

\* A store written by the release before user_version: every column, version 0.
LegacyFull(rows) ==
  [LegacyBase(rows) EXCEPT !.columns = RequiredColumns]

\* A current store whose memories_fts table was dropped by hand.
FtsDropped(rows) ==
  [tables |-> {"memories"}, columns |-> RequiredColumns, triggers |-> AllTriggers,
   user_version |-> SCHEMA_VERSION, journal |-> "delete", rows |-> rows,
   seq |-> Cardinality(DOMAIN rows), fts |-> EmptyBag]

\* A store the current release migrated and then wrote to.
Current(rows) ==
  [tables |-> {"memories", "memories_fts"}, columns |-> RequiredColumns,
   triggers |-> AllTriggers, user_version |-> SCHEMA_VERSION, journal |-> "delete",
   rows |-> rows, seq |-> Cardinality(DOMAIN rows),
   fts |-> SetToBag(AllShadows(rows))]

OneRow == (1 :> DefaultRow(<<"auth", "jwt">>, <<>>, <<>>))

TwoRows ==
  (1 :> DefaultRow(<<"auth", "jwt">>, <<>>, <<>>)) @@
  (2 :> [DefaultRow(<<"the", "cache">>, <<"auth">>, <<>>)
           EXCEPT !.status = "deprecated", !.update_count = 1])

InitialStores ==
  {Uninitialized, LegacyBase(NoRows), LegacyBase(OneRow), LegacyFull(OneRow),
   FtsDropped(OneRow), Current(TwoRows)}

(***************************************************************************)
(* SQLite statements the code issues                                       *)
(***************************************************************************)
tableExists(d, tableName) == tableName \in d.tables

listMemoryColumns(d) == IF tableExists(d, "memories") THEN d.columns ELSE {}

isSchemaReady_FtsOnly(d) == tableExists(d, "memories_fts")

isSchemaReady(d) ==
  /\ tableExists(d, "memories_fts")
  /\ RequiredColumns \subseteq listMemoryColumns(d)

getUserVersion(d) == d.user_version

TriggerAi_Skipped(d, id, new) == d

\* memories_ai: AFTER INSERT, add the new row's shadow to the index.
TriggerAi(d, id, new) ==
  IF "memories_ai" \in d.triggers
  THEN [d EXCEPT !.fts = @ (+) SetToBag({Shadow(id, new)})]
  ELSE d

TriggerAd_Skipped(d, id, old) == d

\* memories_ad: AFTER DELETE, the FTS5 'delete' command with the old values.
TriggerAd(d, id, old) ==
  IF "memories_ad" \in d.triggers
  THEN [d EXCEPT !.fts = @ (-) SetToBag({Shadow(id, old)})]
  ELSE d

TriggerAu_InsertOnly(d, id, old, new) ==
  IF "memories_au" \in d.triggers
  THEN [d EXCEPT !.fts = @ (+) SetToBag({Shadow(id, new)})]
  ELSE d

\* memories_au: AFTER UPDATE, 'delete' the old shadow, insert the new one.
TriggerAu(d, id, old, new) ==
  IF "memories_au" \in d.triggers
  THEN [d EXCEPT !.fts = (@ (-) SetToBag({Shadow(id, old)})) (+) SetToBag({Shadow(id, new)})]
  ELSE d

\* INSERT INTO memories: id INTEGER PRIMARY KEY AUTOINCREMENT never reuses an id.
InsertRow(d, row) ==
  LET id == d.seq + 1
  IN  TriggerAi([d EXCEPT !.rows = @ @@ (id :> row), !.seq = id], id, row)

\* DELETE FROM memories WHERE id = ?
DeleteRow(d, id) ==
  IF id \in DOMAIN d.rows
  THEN TriggerAd([d EXCEPT !.rows = [i \in DOMAIN d.rows \ {id} |-> d.rows[i]]],
                 id, d.rows[id])
  ELSE d

\* UPDATE memories SET ... WHERE id = ?
UpdateRow(d, id, new) ==
  IF id \in DOMAIN d.rows
  THEN TriggerAu([d EXCEPT !.rows[id] = new], id, d.rows[id], new)
  ELSE d

\* memories_fts MATCH '"term"': the rowids whose indexed text holds the term.
FtsMatch(d, term) ==
  {e.rowid : e \in {x \in BagToSet(d.fts) : term \in ShadowWords(x)}}

(***************************************************************************)
(* Schema migration                                                        *)
(***************************************************************************)
\* ALTER TABLE memories ADD COLUMN c: SQLite refuses a column that exists.
AlterAddColumn(d, c) ==
  IF c \in d.columns
  THEN [ok |-> FALSE, db |-> d]
  ELSE [ok |-> TRUE, db |-> [d EXCEPT !.columns = @ \cup {c}]]

\* The statements of migrateSchema in order; "begin" runs before the try block.
MigrationSteps ==
  <<"begin", "journal_wal", "create_memories", "list_columns">>
  \o [i \in DOMAIN MigrationColumns |-> MigrationColumns[i]]
  \o <<"fts_exists", "create_fts", "memories_ai", "memories_ad", "memories_au",
       "rebuild", "user_version", "commit">>

EnsureColumn_Unchecked(w, c) ==
  LET r == AlterAddColumn(w.db, c)
  IN  [ok |-> r.ok, w |-> [w EXCEPT !.db = r.db]]

\* One column of ensureMemoryTableColumns: the ALTER runs unless the column
\* was in the set read by listMemoryColumns at the start.
EnsureColumn(w, c) ==
  IF c \in w.columnsSeen
  THEN [ok |-> TRUE, w |-> w]
  ELSE LET r == AlterAddColumn(w.db, c)
       IN  [ok |-> r.ok, w |-> [w EXCEPT !.db = r.db]]

\* One statement of the migration on the transaction's working copy.
MigrationStep(step, w) ==
  CASE step = "begin" -> [ok |-> TRUE, w |-> w]
    [] step = "journal_wal" ->
         \* PRAGMA journal_mode=WAL inside BEGIN IMMEDIATE: SQLite answers with
         \* the current mode and changes nothing.
         [ok |-> TRUE, w |-> w]
    [] step = "create_memories" ->
         [ok |-> TRUE,
          w |-> IF tableExists(w.db, "memories") THEN w
                ELSE [w EXCEPT !.db.tables = @ \cup {"memories"},
                               !.db.columns = RequiredColumns]]
    [] step = "list_columns" ->
         [ok |-> TRUE, w |-> [w EXCEPT !.columnsSeen = listMemoryColumns(w.db)]]
    [] step \in RequiredColumns -> EnsureColumn(w, step)
    [] step = "fts_exists" ->
         [ok |-> TRUE,
          w |-> [w EXCEPT !.needsFtsRebuild = ~tableExists(w.db, "memories_fts")]]
    [] step = "create_fts" ->
         [ok |-> TRUE,
          w |-> IF tableExists(w.db, "memories_fts") THEN w
                ELSE [w EXCEPT !.db.tables = @ \cup {"memories_fts"},
                               !.db.fts = EmptyBag]]
    [] step \in AllTriggers ->
         [ok |-> TRUE, w |-> [w EXCEPT !.db.triggers = @ \cup {step}]]
    [] step = "rebuild" ->
         [ok |-> TRUE,
          w |-> IF w.needsFtsRebuild
                THEN [w EXCEPT !.db.fts = SetToBag(AllShadows(w.db.rows))]
                ELSE w]
    [] step = "user_version" ->
         [ok |-> TRUE, w |-> [w EXCEPT !.db.user_version = SCHEMA_VERSION]]
    [] step = "commit" -> [ok |-> TRUE, w |-> w]

\* Statements k.. of the migration; statement failAt throws (0: none does).
RECURSIVE RunMigration(_, _, _)
RunMigration(w, k, failAt) ==
  IF k > Len(MigrationSteps) THEN [ok |-> TRUE, w |-> w, at |-> 0]
  ELSE IF k = failAt THEN [ok |-> FALSE, w |-> w, at |-> k]
  ELSE LET r == MigrationStep(MigrationSteps[k], w)
       IN  IF r.ok THEN RunMigration(r.w, k + 1, failAt)
           ELSE [ok |-> FALSE, w |-> r.w, at |-> k]

CatchRollback_Kept(before, work) == work

\* catch (err) { ROLLBACK; throw err }: the store is what it was at BEGIN.
CatchRollback(before, work) == before

\* migrateSchema: [ok, db, ran, dirty]; ran says the transaction committed,
\* dirty that the statement that threw came after statements that had changed
\* the store inside the transaction.
migrateSchema(d, failAt) ==
  IF getUserVersion(d) >= SCHEMA_VERSION /\ isSchemaReady(d)
  THEN [ok |-> TRUE, db |-> d, ran |-> FALSE, dirty |-> FALSE]
  ELSE LET w0 == [db |-> d, columnsSeen |-> {}, needsFtsRebuild |-> FALSE]
           r == RunMigration(w0, 1, failAt)
       IN  IF r.ok THEN [ok |-> TRUE, db |-> r.w.db, ran |-> TRUE, dirty |-> FALSE]
           ELSE IF r.at = 1
           THEN [ok |-> FALSE, db |-> d, ran |-> FALSE, dirty |-> FALSE]
           ELSE [ok |-> FALSE, db |-> CatchRollback(d, r.w.db), ran |-> FALSE,
                 dirty |-> r.w.db # d]

ensureSchemaReadable_Migrating(d, failAt) ==
  LET m == migrateSchema(d, failAt)
  IN  [ok |-> m.ok, db |-> m.db, ran |-> m.ran, dirty |-> m.dirty,
       err |-> IF m.ok THEN "none" ELSE "sqlite"]

\* ensureSchemaReadable: [ok, db, ran, dirty, err].
ensureSchemaReadable(d, failAt) ==
  IF ~tableExists(d, "memories")
  THEN LET m == migrateSchema(d, failAt)
       IN  [ok |-> m.ok, db |-> m.db, ran |-> m.ran, dirty |-> m.dirty,
            err |-> IF m.ok THEN "none" ELSE "sqlite"]
  ELSE IF ~isSchemaReady(d)
  THEN [ok |-> FALSE, db |-> d, ran |-> FALSE, dirty |-> FALSE, err |-> "outdated"]
  ELSE [ok |-> TRUE, db |-> d, ran |-> FALSE, dirty |-> FALSE, err |-> "none"]

\* ensureDb(mode): [ok, db, ran, dirty, err].
ensureDb(d, mode, failAt) ==
  IF mode = "write"
  THEN LET m == migrateSchema(d, failAt)
       IN  [ok |-> m.ok, db |-> m.db, ran |-> m.ran, dirty |-> m.dirty,
            err |-> IF m.ok THEN "none" ELSE "sqlite"]
  ELSE ensureSchemaReadable(d, failAt)

FailPoints == 0 .. Len(MigrationSteps)

(***************************************************************************)
(* Token model and conflict search                                         *)
(***************************************************************************)
Stopwords ==
  {"the", "and", "with", "from", "that", "this", "into", "your", "have", "for",
   "are", "use", "uses", "using", "src", "lib", "app", "test", "tests"}

RECURSIVE Unique(_, _)
Unique(tokens, seen) ==
  IF tokens = <<>> THEN <<>>
  ELSE IF Head(tokens) \in seen THEN Unique(Tail(tokens), seen)
  ELSE <<Head(tokens)>> \o Unique(Tail(tokens), seen \cup {Head(tokens)})

\* extractTerms: words of two or more characters that are no stopword,
\* first occurrence kept.
extractTerms(text) ==
  Unique(SelectSeq(text, LAMBDA token : Len(token) >= 2 /\ token \notin Stopwords), {})

\* buildFtsQueryFromTerms: the first 12 terms joined by OR; <<>> is undefined.
buildFtsQueryFromTerms(terms) ==
  SubSeq(terms, 1, IF Len(terms) < 12 THEN Len(terms) ELSE 12)

\* memories_fts MATCH ? for an OR query, joined to memories on id = rowid.
FtsQuery(d, ftsQuery) ==
  (UNION {FtsMatch(d, ftsQuery[i]) : i \in DOMAIN ftsQuery}) \cap DOMAIN d.rows

ActiveIds(d) == {i \in DOMAIN d.rows : d.rows[i].status = "active"}

\* detectPotentialConflicts: the active rows the payload's terms match.
detectPotentialConflicts(d, content, tags, context) ==
  LET ftsQuery == buildFtsQueryFromTerms(extractTerms(content \o tags \o context))
  IN  IF ftsQuery = <<>> THEN {} ELSE FtsQuery(d, ftsQuery) \cap ActiveIds(d)

findExactDuplicate_Never(d, content, tags, context) == {}

\* findExactDuplicate: the active rows with the same (content, tags, context).
findExactDuplicate(d, content, tags, context) ==
  {i \in ActiveIds(d) :
     /\ d.rows[i].content = content
     /\ d.rows[i].tags = tags
     /\ d.rows[i].context = context}

(***************************************************************************)
(* Write commands, each on the store the open left                         *)
(***************************************************************************)
MinOf(S) == CHOOSE x \in S : \A y \in S : x <= y

UpdatedRow_NoCount(old, content, tagsOpt, memoOpt) ==
  [old EXCEPT !.content = content,
              !.tags = IF tagsOpt = {} THEN @ ELSE CHOOSE t \in tagsOpt : TRUE,
              !.context = IF memoOpt = {} THEN @ ELSE CHOOSE m \in memoOpt : TRUE]

\* updateSetsAndParams: content, updated_at, update_count + 1, and the flags given.
UpdatedRow(old, content, tagsOpt, memoOpt) ==
  [old EXCEPT !.content = content,
              !.update_count = @ + 1,
              !.tags = IF tagsOpt = {} THEN @ ELSE CHOOSE t \in tagsOpt : TRUE,
              !.context = IF memoOpt = {} THEN @ ELSE CHOOSE m \in memoOpt : TRUE]

\* The loop of handleUpdateCommand over targetIds.
RECURSIVE UpdateAll(_, _, _, _, _)
UpdateAll(d, ids, content, tagsOpt, memoOpt) ==
  IF ids = {} THEN d
  ELSE LET id == MinOf(ids)
           d1 == IF id \in DOMAIN d.rows
                 THEN UpdateRow(d, id, UpdatedRow(d.rows[id], content, tagsOpt, memoOpt))
                 ELSE d
       IN  UpdateAll(d1, ids \ {id}, content, tagsOpt, memoOpt)

DeprecatedRow_CountReset(old, supersededByOpt) ==
  [old EXCEPT !.status = IF supersededByOpt = {} THEN "deprecated" ELSE "superseded_by",
              !.superseded_by = IF supersededByOpt = {} THEN 0
                                ELSE CHOOSE s \in supersededByOpt : TRUE,
              !.update_count = 0]

\* The SET list of handleDeprecateCommand.
DeprecatedRow(old, supersededByOpt) ==
  [old EXCEPT !.status = IF supersededByOpt = {} THEN "deprecated" ELSE "superseded_by",
              !.superseded_by = IF supersededByOpt = {} THEN 0
                                ELSE CHOOSE s \in supersededByOpt : TRUE,
              !.update_count = @ + 1]

\* The loop of handleDeprecateCommand over targetIds.
RECURSIVE DeprecateAll(_, _, _)
DeprecateAll(d, ids, supersededByOpt) ==
  IF ids = {} THEN d
  ELSE LET id == MinOf(ids)
           d1 == IF id \in DOMAIN d.rows
                 THEN UpdateRow(d, id, DeprecatedRow(d.rows[id], supersededByOpt))
                 ELSE d
       IN  DeprecateAll(d1, ids \ {id}, supersededByOpt)

RECURSIVE DeleteAll_Reactivating(_, _)
DeleteAll_Reactivating(d, ids) ==
  IF ids = {} THEN d
  ELSE DeleteAll_Reactivating(
         [DeleteRow(d, MinOf(ids)) EXCEPT
            !.rows = [i \in DOMAIN @ |->
                        IF @[i].superseded_by = MinOf(ids)
                        THEN [@[i] EXCEPT !.status = "active"] ELSE @[i]]],
         ids \ {MinOf(ids)})

\* The loop of handleDeleteCommand over ids.
RECURSIVE DeleteAll(_, _)
DeleteAll(d, ids) ==
  IF ids = {} THEN d
  ELSE DeleteAll(DeleteRow(d, MinOf(ids)), ids \ {MinOf(ids)})

\* addInsert: status 'active', superseded_by NULL, update_count 0.
addInsert(d, content, tags, context) ==
  InsertRow(d, DefaultRow(content, tags, context))

\* runImportInsert: the entry's own status, superseded_by and update_count.
runImportInsert(d, entry) ==
  InsertRow(d, [content |-> entry.content, tags |-> entry.tags,
                context |-> entry.context, status |-> entry.status,
                superseded_by |-> entry.superseded_by,
                update_count |-> entry.update_count])

\* normalizeImportEntry: the skip reason, or "ok".
normalizeImportEntry(entry) ==
  IF entry.content = <<>> THEN "missing_content"
  ELSE IF entry.status \notin MEMORY_STATUSES THEN "invalid_status"
  ELSE "ok"

\* processImportEntry: [db, status, id].
processImportEntry(d, entry) ==
  IF normalizeImportEntry(entry) # "ok"
  THEN [db |-> d, status |-> "skip", id |-> 0]
  ELSE IF findExactDuplicate(d, entry.content, entry.tags, entry.context) # {}
  THEN [db |-> d, status |-> "skip",
        id |-> MinOf(findExactDuplicate(d, entry.content, entry.tags, entry.context))]
  ELSE IF /\ entry.status = "active"
          /\ detectPotentialConflicts(d, entry.content, entry.tags, entry.context) # {}
  THEN [db |-> d, status |-> "conflict", id |-> 0]
  ELSE [db |-> runImportInsert(d, entry), status |-> "success", id |-> d.seq + 1]

\* The result printed for one entry: its status, the id it was given or the
\* existing_id it duplicates (0 when neither), and, standing for its index,
\* the entry itself.
ImportResult(r, entry) == [status |-> r.status, id |-> r.id, entry |-> entry]

RECURSIVE ImportAll_StopAtFirstSkip(_, _, _)
ImportAll_StopAtFirstSkip(d, entries, results) ==
  IF entries = <<>> THEN [db |-> d, results |-> results]
  ELSE LET r == processImportEntry(d, Head(entries))
       IN  IF r.status # "success"
           THEN [db |-> r.db, results |-> Append(results, ImportResult(r, Head(entries)))]
           ELSE ImportAll_StopAtFirstSkip(r.db, Tail(entries),
                  Append(results, ImportResult(r, Head(entries))))

\* The loop of handleImportCommand: [db, results].
RECURSIVE ImportAll(_, _, _)
ImportAll(d, entries, results) ==
  IF entries = <<>> THEN [db |-> d, results |-> results]
  ELSE LET r == processImportEntry(d, Head(entries))
       IN  ImportAll(r.db, Tail(entries),
                     Append(results, ImportResult(r, Head(entries))))

(***************************************************************************)
(* One invocation of the tool: the open, then the command's handler.       *)
(* last is the invocation just finished: its command and target ids, the   *)
(* error it exited with, whether the open committed a migration (ran),     *)
(* whether a failed open had work to undo (dirty), what it printed (found, *)
(* not_found, results, served), the content its targets held before it    *)
(* (old), the visibility flags it was given (filters) and the entries of   *)
(* the file it was given (file).                                           *)
(***************************************************************************)
\* parseCommonFilters with neither --status nor --include-deprecated given.
NoFilters == [status |-> {}, includeDeprecated |-> FALSE]

NoLast ==
  [op |-> "init", err |-> "none", ran |-> FALSE, dirty |-> FALSE, ids |-> {},
   found |-> {}, not_found |-> {}, results |-> <<>>, served |-> FALSE,
   old |-> NoRows, filters |-> NoFilters, file |-> <<>>]

writeCommands == {"add", "update", "deprecate", "delete", "import", "migrate"}

ModeOf(command) == IF command \in writeCommands THEN "write" ELSE "read"

\* The statements at which a failure can be injected into this open.
FailChoices(d, mode) ==
  IF \/ mode = "write" /\ ~(getUserVersion(d) >= SCHEMA_VERSION /\ isSchemaReady(d))
     \/ mode = "read" /\ ~tableExists(d, "memories")
  THEN FailPoints
  ELSE {0}

\* The open threw: the error is printed and the process exits 1.
OpenFailed(command, o) ==
  [NoLast EXCEPT !.op = command, !.err = o.err, !.dirty = o.dirty]

OldContent(d, ids) == [i \in ids \cap DOMAIN d.rows |-> d.rows[i].content]

\* The id lists the commands are run with: one id, or every id of the range.
IdSets == {{i} : i \in 1 .. MaxId} \cup {1 .. MaxId}

Opt(S) == {{}} \cup {{v} : v \in S}

\* One more invocation, within the run's budget.
Tick == ncmd < MaxCmds /\ ncmd' = ncmd + 1 /\ UNCHANGED <<retry, conc, rw, cert, call, proc>>

AddCmd ==
  /\ Tick
  /\ \E content \in ContentVals, tags \in TagVals, context \in ContextVals :
       LET o == ensureDb(db, ModeOf("add"), 0)
       IN  /\ o.ok
           /\ o.db.seq < MaxId
           /\ db' = addInsert(o.db, content, tags, context)
           /\ last' = [NoLast EXCEPT !.op = "add", !.ran = o.ran,
                                     !.ids = {o.db.seq + 1},
                                     !.found = {o.db.seq + 1}]

UpdateCmd ==
  /\ Tick
  /\ \E targetIds \in IdSets, content \in ContentVals,
        tagsOpt \in Opt({<<"auth">>}), memoOpt \in Opt({<<"cache">>}) :
       LET o == ensureDb(db, ModeOf("update"), 0)
       IN  /\ o.ok
           /\ db' = UpdateAll(o.db, targetIds, content, tagsOpt, memoOpt)
           /\ last' = [NoLast EXCEPT !.op = "update", !.ran = o.ran,
                                     !.ids = targetIds,
                                     !.found = targetIds \cap DOMAIN db'.rows,
                                     !.not_found = targetIds \ DOMAIN db'.rows,
                                     !.old = OldContent(o.db, targetIds)]

DeprecateCmd ==
  /\ Tick
  /\ \E targetIds \in IdSets, supersededByOpt \in Opt(1 .. MaxId) :
       LET o == ensureDb(db, ModeOf("deprecate"), 0)
       IN  /\ o.ok
           /\ IF supersededByOpt \cap targetIds # {}
              THEN \* usageError("A memory cannot supersede itself.")
                   /\ db' = o.db
                   /\ last' = [NoLast EXCEPT !.op = "deprecate", !.ran = o.ran,
                                             !.err = "usage", !.ids = targetIds]
              ELSE /\ db' = DeprecateAll(o.db, targetIds, supersededByOpt)
                   /\ last' = [NoLast EXCEPT
                                 !.op = "deprecate", !.ran = o.ran,
                                 !.ids = targetIds,
                                 !.found = targetIds \cap DOMAIN db'.rows,
                                 !.not_found = targetIds \ DOMAIN db'.rows,
                                 !.old = OldContent(o.db, targetIds)]

DeleteCmd ==
  /\ Tick
  /\ \E ids \in IdSets :
       LET o == ensureDb(db, ModeOf("delete"), 0)
       IN  /\ o.ok
           /\ db' = DeleteAll(o.db, ids)
           /\ last' = [NoLast EXCEPT !.op = "delete", !.ran = o.ran,
                                     !.ids = ids, !.found = ids,
                                     !.old = OldContent(o.db, ids)]

ImportEntryVals ==
  [content : ContentVals \cup {<<>>}, tags : {<<>>}, context : {<<>>},
   status : {"active", "deprecated"}, superseded_by : {0}, update_count : {0}]
  \cup
  {[content |-> <<"the", "cache">>, tags |-> <<>>, context |-> <<>>,
    status |-> "superseded_by", superseded_by |-> 1, update_count |-> 0]}

RECURSIVE SeqsUpTo(_, _)
SeqsUpTo(S, n) ==
  IF n = 0 THEN {<<>>}
  ELSE SeqsUpTo(S, n - 1) \cup
       {Append(q, x) : q \in {p \in SeqsUpTo(S, n - 1) : Len(p) = n - 1}, x \in S}

ImportFiles == SeqsUpTo(ImportEntryVals, MaxImport) \ {<<>>}

SuccessIds(results) ==
  {results[i].id : i \in {j \in DOMAIN results : results[j].status = "success"}}

\* handleImportCommand: the loop has left r = [db, results]; the results are
\* printed.  Ids stay within maxSeq.
Imported(o, r, entries, maxSeq) ==
  /\ o.ok
  /\ r.db.seq <= maxSeq
  /\ db' = r.db
  /\ last' = [NoLast EXCEPT !.op = "import", !.ran = o.ran,
                            !.ids = SuccessIds(r.results),
                            !.results = r.results, !.file = entries]

\* handleImportCommand on one file, on the store its open o left.
ImportFile(o, entries, maxSeq) ==
  Imported(o, ImportAll(o.db, entries, <<>>), entries, maxSeq)

ImportCmd ==
  /\ Tick
  /\ \E entries \in ImportFiles :
       ImportFile(ensureDb(db, ModeOf("import"), 0), entries, MaxId)

\* A single import of a longer file.
BatchFiles == SeqsUpTo(ImportEntryVals, MaxEntries) \ {<<>>}

ImportBatch ==
  /\ ncmd = 0
  /\ ncmd' = 1
  /\ UNCHANGED <<retry, conc, rw, cert, call, proc>>
  /\ \E entries \in BatchFiles :
       ImportFile(ensureDb(db, ModeOf("import"), 0), entries, MaxId + MaxEntries)

\* handleMigrateCommand prints {status: "ok", migrated: true}; the open did the work.
MigrateCmd ==
  /\ Tick
  /\ LET o == ensureDb(db, ModeOf("migrate"), 0)
     IN  /\ o.ok
         /\ db' = o.db
         /\ last' = [NoLast EXCEPT !.op = "migrate", !.ran = o.ran]

QueryVals == {<<"jwt">>, <<"the">>, <<"auth", "cache">>}

\* The flag combinations the read commands are run with.
FilterVals ==
  {NoFilters,
   [status |-> {}, includeDeprecated |-> TRUE],
   [status |-> {"deprecated"}, includeDeprecated |-> FALSE]}

applySqlFilters_NoDefault(d, filters) ==
  {i \in DOMAIN d.rows : filters.status # {} => d.rows[i].status \in filters.status}

\* applySqlFilters with defaultActiveOnly: status = ? when --status is given,
\* else status = 'active' unless --include-deprecated.
applySqlFilters(d, filters) ==
  {i \in DOMAIN d.rows :
     IF filters.status # {} THEN d.rows[i].status \in filters.status
     ELSE filters.includeDeprecated \/ d.rows[i].status = "active"}

fetchQueryResults_NoGuard(d, term, filters) ==
  LET ftsQuery == buildFtsQueryFromTerms(extractTerms(term))
  IN  IF ftsQuery = <<>> THEN applySqlFilters(d, filters)
      ELSE FtsQuery(d, ftsQuery) \cap applySqlFilters(d, filters)

\* fetchQueryResults: no index query without tokens; else the index matches
\* that pass the filters.
fetchQueryResults(d, term, filters) ==
  LET ftsQuery == buildFtsQueryFromTerms(extractTerms(term))
  IN  IF ftsQuery = <<>> THEN {}
      ELSE FtsQuery(d, ftsQuery) \cap applySqlFilters(d, filters)

\* A read command on the store its open o left: the rows are printed and the
\* store stays as the open left it.
Served(command, o, filters, ids) ==
  /\ o.ok
  /\ db' = o.db
  /\ last' = [NoLast EXCEPT !.op = command, !.ran = o.ran, !.served = TRUE,
                            !.filters = filters, !.ids = ids]

QueryRows(o, term, filters) ==
  Served("query", o, filters, fetchQueryResults(o.db, term, filters))

QueryCmd ==
  /\ Tick
  /\ \E term \in QueryVals, filters \in FilterVals :
       QueryRows(ensureDb(db, ModeOf("query"), 0), term, filters)

\* handleListCommand and handleExportCommand: SELECT * FROM memories under the
\* filters; the rows are printed.
FilteredRows(command, o, filters) ==
  Served(command, o, filters, applySqlFilters(o.db, filters))

ListCmd ==
  /\ Tick
  /\ \E filters \in FilterVals :
       FilteredRows("list", ensureDb(db, ModeOf("list"), 0), filters)

ExportCmd ==
  /\ Tick
  /\ \E filters \in FilterVals :
       FilteredRows("export", ensureDb(db, ModeOf("export"), 0), filters)

\* get, verify and diff: getMemoryById, then the row or {error: "Not found"}.
lookupCommands == {"get", "verify", "diff"}

LookedUp(command, o, id) ==
  /\ o.ok
  /\ db' = o.db
  /\ last' = [NoLast EXCEPT !.op = command, !.ran = o.ran, !.served = TRUE,
                            !.ids = {id},
                            !.found = {id} \cap DOMAIN o.db.rows,
                            !.not_found = {id} \ DOMAIN o.db.rows]

LookupCmd ==
  /\ Tick
  /\ \E command \in lookupCommands, id \in 1 .. MaxId :
       LookedUp(command, ensureDb(db, ModeOf(command), 0), id)

\* The sets of ids whose expires_after_days has elapsed when gc runs: the
\* clock and the rows' TTL decide it, the command does not.
ExpiredSets == {{}, {1}, 1 .. MaxId}

gcSweep_Deleting(d, expired) == DeleteAll(d, expired)

\* What handleGcCommand does to the rows it found expired: it lists them.
gcSweep(d, expired) == d

\* handleGcCommand: usage error without --dry-run; else the active rows past
\* their TTL are printed.
GcListed(o, dryRun, expired) ==
  /\ o.ok
  /\ IF ~dryRun
     THEN /\ db' = o.db
          /\ last' = [NoLast EXCEPT !.op = "gc", !.ran = o.ran, !.err = "usage"]
     ELSE /\ db' = gcSweep(o.db, expired)
          /\ last' = [NoLast EXCEPT !.op = "gc", !.ran = o.ran,
                                    !.served = TRUE, !.ids = expired]

GcOpened(o, dryRun, elapsed) == GcListed(o, dryRun, ActiveIds(o.db) \cap elapsed)

GcCmd ==
  /\ Tick
  /\ \E dryRun \in BOOLEAN, elapsed \in ExpiredSets :
       GcOpened(ensureDb(db, ModeOf("gc"), 0), dryRun, elapsed)

\* suggest, stats and coverage: SELECTs whose rows are scored or counted and
\* printed.
reportCommands == {"suggest", "stats", "coverage"}

ReportCmd ==
  /\ Tick
  /\ \E command \in reportCommands :
       Served(command, ensureDb(db, ModeOf(command), 0), NoFilters, {})

readCommands ==
  {"query", "list", "export", "gc"} \cup lookupCommands \cup reportCommands

\* The commands of main that open the store and are modelled here.
dbCommands == writeCommands \cup readCommands

\* main: ensureDb threw, so the error is printed, the process exits 1 and no
\* handler runs.
OpenFails ==
  /\ Tick
  /\ \E command \in dbCommands :
       \E failAt \in FailChoices(db, ModeOf(command)) :
         LET o == ensureDb(db, ModeOf(command), failAt)
         IN  /\ ~o.ok
             /\ db' = o.db
             /\ last' = OpenFailed(command, o)

(***************************************************************************)
(* withBusyRetry: one call, the operation's outcomes chosen by the store   *)
(***************************************************************************)
\* An error as isBusyError reads it: whether it is an object, its code ("" when
\* it has none) and its message as words.
BusyErr ==
  [object |-> TRUE, code |-> "SQLITE_BUSY", message |-> <<"database", "is", "locked">>]

LockedErr ==
  [object |-> TRUE, code |-> "SQLITE_LOCKED",
   message |-> <<"database", "table", "is", "locked">>]

MessageOnlyErr ==
  [object |-> TRUE, code |-> "", message |-> <<"Error", "Database", "Is", "Locked">>]

ConstraintErr ==
  [object |-> TRUE, code |-> "SQLITE_CONSTRAINT",
   message |-> <<"UNIQUE", "constraint", "failed">>]

NonObjectErr == [object |-> FALSE, code |-> "", message |-> <<>>]

ErrVals == {BusyErr, LockedErr, MessageOnlyErr, ConstraintErr, NonObjectErr}

NoErr == [object |-> FALSE, code |-> "none", message |-> <<>>]

LowerWord(w) ==
  CASE w = "Database" -> "database"
    [] w = "Is" -> "is"
    [] w = "Locked" -> "locked"
    [] w = "Error" -> "error"
    [] w = "UNIQUE" -> "unique"
    [] OTHER -> w

toLowerCase(message) == [i \in DOMAIN message |-> LowerWord(message[i])]

includes(message, phrase) ==
  \E i \in 0 .. (Len(message) - Len(phrase)) :
    SubSeq(message, i + 1, i + Len(phrase)) = phrase

isBusyError_Any(err) == TRUE

isBusyError_Never(err) == FALSE

isBusyError(err) ==
  IF ~err.object THEN FALSE
  ELSE IF err.code = "SQLITE_BUSY" \/ err.code = "SQLITE_LOCKED" THEN TRUE
  ELSE includes(toLowerCase(err.message), <<"database", "is", "locked">>)

BudgetSpent_OffByOne(attempts) == attempts > BUSY_RETRIES

\* attempts >= BUSY_RETRIES
BudgetSpent(attempts) == attempts >= BUSY_RETRIES

MinInt(a, b) == IF a <= b THEN a ELSE b
MaxInt(a, b) == IF a >= b THEN a ELSE b

\* Math.min(1000, Math.max(1, BUSY_BACKOFF_MS * 2 ** (attempts - 1)))
backoffMs(attempts) == MinInt(1000, MaxInt(1, BUSY_BACKOFF_MS * 2 ^ (attempts - 1)))

\* let attempts = 0; for (;;) { try { return operation() } ...
RetryStart ==
  [pc |-> "try", attempts |-> 0, executions |-> 0, waits |-> <<>>, errs |-> <<>>,
   thrown |-> NoErr]

\* return operation();
OperationReturns ==
  /\ retry.pc = "try"
  /\ retry' = [retry EXCEPT !.pc = "returned", !.executions = @ + 1]
  /\ UNCHANGED <<db, last, ncmd, conc, rw, cert, call, proc>>

\* catch (err): rethrow, or count the attempt, sleep and go round again.
OperationThrows ==
  /\ retry.pc = "try"
  /\ \E err \in ErrVals :
       retry' =
         IF ~isBusyError(err) \/ BudgetSpent(retry.attempts)
         THEN [retry EXCEPT !.pc = "thrown", !.executions = @ + 1,
                            !.errs = Append(@, err), !.thrown = err]
         ELSE [retry EXCEPT !.attempts = @ + 1, !.executions = @ + 1,
                            !.errs = Append(@, err),
                            !.waits = Append(@, backoffMs(retry.attempts + 1))]
  /\ UNCHANGED <<db, last, ncmd, conc, rw, cert, call, proc>>

(***************************************************************************)
(* Two write sessions inserting into one current store.  SQLite lets one   *)
(* connection write at a time; a statement that finds the write lock taken *)
(* fails with SQLITE_BUSY once busy_timeout has passed.                    *)
(***************************************************************************)
Sessions == {1, 2}

ConcStart ==
  [lock |-> 0, seq |-> 0, rows |-> NoRows,
   sess |-> [s \in Sessions |->
              [pc |-> "idle", attempts |-> 0, n |-> 0, nextId |-> 0,
               acked |-> {}, failed |-> {}]]]

LockFree(lock) == lock = 0

\* The session's next add: addInsert calls runWithRetry(INSERT ...).
IssueInsert(s) ==
  /\ conc.sess[s].pc = "idle"
  /\ conc.sess[s].n < MaxInserts
  /\ conc' = [conc EXCEPT !.sess[s].pc = "try", !.sess[s].attempts = 0,
                          !.sess[s].n = @ + 1]
  /\ UNCHANGED <<db, last, ncmd, retry, rw, cert, call, proc>>

\* operation() finds the write lock free: the INSERT takes it and reads the
\* AUTOINCREMENT sequence.
AcquireLock(s) ==
  /\ conc.sess[s].pc = "try"
  /\ LockFree(conc.lock)
  /\ conc' = [conc EXCEPT !.lock = s, !.sess[s].pc = "writing",
                          !.sess[s].nextId = conc.seq + 1]
  /\ UNCHANGED <<db, last, ncmd, retry, rw, cert, call, proc>>

\* operation() throws SQLITE_BUSY and withBusyRetry goes round again.
BusyRetry(s) ==
  /\ conc.sess[s].pc = "try"
  /\ ~LockFree(conc.lock)
  /\ isBusyError(BusyErr) /\ ~BudgetSpent(conc.sess[s].attempts)
  /\ conc' = [conc EXCEPT !.sess[s].attempts = @ + 1]
  /\ UNCHANGED <<db, last, ncmd, retry, rw, cert, call, proc>>

\* operation() throws SQLITE_BUSY and withBusyRetry rethrows it: the add fails.
BusyFail(s) ==
  /\ conc.sess[s].pc = "try"
  /\ ~LockFree(conc.lock)
  /\ ~isBusyError(BusyErr) \/ BudgetSpent(conc.sess[s].attempts)
  /\ conc' = [conc EXCEPT
                !.sess[s].pc = "idle",
                !.sess[s].failed = @ \cup {<<conc.sess[s].n, conc.sess[s].attempts + 1>>}]
  /\ UNCHANGED <<db, last, ncmd, retry, rw, cert, call, proc>>

\* The INSERT writes its row, commits and gives the lock back; the add prints
\* the new row.
CommitInsert(s) ==
  /\ conc.sess[s].pc = "writing"
  /\ LET id == conc.sess[s].nextId
     IN  conc' = [conc EXCEPT
                    !.rows = [i \in DOMAIN conc.rows \cup {id} |->
                                IF i = id THEN <<s, conc.sess[s].n>> ELSE conc.rows[i]],
                    !.seq = id,
                    !.lock = 0,
                    !.sess[s].pc = "idle",
                    !.sess[s].acked = @ \cup {<<conc.sess[s].n, conc.sess[s].attempts > 0>>}]
  /\ UNCHANGED <<db, last, ncmd, retry, rw, cert, call, proc>>

(***************************************************************************)
(* A read session beside a writing process.  The journal mode is the one   *)
(* the write-mode open left in the store file.  With a rollback journal a  *)
(* writer holds RESERVED while its changes sit in its page cache, and      *)
(* EXCLUSIVE while it writes them to the file (cache spill, COMMIT): a     *)
(* read then fails with SQLITE_BUSY once busy_timeout has passed.  With a  *)
(* write-ahead log a read never meets the writer's lock.                   *)
(***************************************************************************)
\* The journal modes the write-mode open leaves: of a new file, and of the
\* stores earlier releases left.
JournalsAfterOpen == {ensureDb(s, "write", 0).db.journal : s \in InitialStores}

RwStart(journal) ==
  [journal |-> journal, committed |-> 0, txns |-> 0,
   writer |-> [pc |-> "idle", pending |-> 0],
   reader |-> [pc |-> "idle", reads |-> 0, attempts |-> 0, waited |-> FALSE,
               result |-> 0]]

\* The read statement finds the file locked against readers.
ReadBlocked(journal, writerPc) == journal # "wal" /\ writerPc = "exclusive"

\* BEGIN IMMEDIATE and the statements of the transaction (migrateSchema), or
\* one INSERT, UPDATE or DELETE in its implicit transaction.
WriterBegin ==
  /\ rw.writer.pc = "idle"
  /\ rw.txns < MaxTxns
  /\ rw' = [rw EXCEPT !.txns = @ + 1, !.writer.pc = "reserved",
                      !.writer.pending = rw.committed + 1]
  /\ UNCHANGED <<db, last, ncmd, retry, conc, cert, call, proc>>

\* The writer starts writing its pages out.
WriterFlush ==
  /\ rw.writer.pc = "reserved"
  /\ rw' = [rw EXCEPT !.writer.pc = "exclusive"]
  /\ UNCHANGED <<db, last, ncmd, retry, conc, cert, call, proc>>

\* COMMIT is done: the changes are the store's content, the locks are gone.
WriterCommit ==
  /\ rw.writer.pc = "exclusive"
  /\ rw' = [rw EXCEPT !.writer.pc = "idle", !.committed = rw.writer.pending]
  /\ UNCHANGED <<db, last, ncmd, retry, conc, cert, call, proc>>

\* A read command: ensureDb("read"), then allWithRetry(SELECT ...).
ReaderStart ==
  /\ rw.reader.pc \in {"idle", "done", "failed"}
  /\ rw.reader.reads < MaxReads
  /\ rw' = [rw EXCEPT !.reader = [pc |-> "try", reads |-> @.reads + 1,
                                  attempts |-> 0, waited |-> FALSE, result |-> 0]]
  /\ UNCHANGED <<db, last, ncmd, retry, conc, cert, call, proc>>

\* operation() returns the rows of the last committed transaction.
ReaderReads ==
  /\ rw.reader.pc = "try"
  /\ ~ReadBlocked(rw.journal, rw.writer.pc)
  /\ rw' = [rw EXCEPT !.reader.pc = "done", !.reader.result = rw.committed]
  /\ UNCHANGED <<db, last, ncmd, retry, conc, cert, call, proc>>

\* operation() waited busy_timeout on the writer's lock and threw SQLITE_BUSY:
\* withBusyRetry sleeps and goes round again, or rethrows.
ReaderBusy ==
  /\ rw.reader.pc = "try"
  /\ ReadBlocked(rw.journal, rw.writer.pc)
  /\ rw' = IF ~isBusyError(BusyErr) \/ BudgetSpent(rw.reader.attempts)
           THEN [rw EXCEPT !.reader.pc = "failed", !.reader.waited = TRUE]
           ELSE [rw EXCEPT !.reader.attempts = @ + 1, !.reader.waited = TRUE]
  /\ UNCHANGED <<db, last, ncmd, retry, conc, cert, call, proc>>

(***************************************************************************)
(* Certainty: what the commands store in the certainty column and what     *)
(* they print for it.  A value is a string; "" stands for a value that is  *)
(* not a string or not given (undefined, NULL).                            *)
(***************************************************************************)
CERTAINTY_LEVELS == {"hard", "soft", "uncertain"}

Undefined == ""

isCertainty(value) == value \in CERTAINTY_LEVELS

LEGACY_CERTAINTY_ALIASES(raw) ==
  CASE raw = "hard" -> "verified"
    [] raw = "soft" -> "inferred"
    [] raw = "uncertain" -> "speculative"
    [] OTHER -> Undefined

\* if (isCertainty(raw)) return raw; return LEGACY_CERTAINTY_ALIASES[raw];
canonicalizeCertainty(raw) ==
  IF isCertainty(raw) THEN raw ELSE LEGACY_CERTAINTY_ALIASES(raw)

\* typeof value !== "string" ? fallback : canonicalizeCertainty(value) ?? fallback
normalizeCertaintyValue(value) ==
  IF value = Undefined THEN "inferred"
  ELSE IF canonicalizeCertainty(value) = Undefined THEN "inferred"
  ELSE canonicalizeCertainty(value)

\* requireCertainty: [ok, value]; an unknown --certainty ends the command.
requireCertainty(flagOpt) ==
  IF flagOpt = {} THEN [ok |-> TRUE, value |-> Undefined]
  ELSE LET normalized == canonicalizeCertainty(CHOOSE raw \in flagOpt : TRUE)
       IN  [ok |-> normalized # Undefined, value |-> normalized]

\* The values given with --certainty or in an import entry.
CertaintyInputs ==
  {"hard", "soft", "uncertain", "verified", "inferred", "speculative", "maybe"}

\* The certainty column of the rows in id order, the certainty of each row
\* the last command printed, and whether that command ended on an error.
CertStart(stored) == [stored |-> stored, out |-> <<>>, err |-> FALSE]

\* handleAddCommand: requireCertainty(args) ?? "inferred" is stored, and the
\* created row is printed through normalizeSqliteRow.
CertAdd ==
  /\ Len(cert.stored) < MaxCertRows
  /\ \E flagOpt \in Opt(CertaintyInputs) :
       LET c == requireCertainty(flagOpt)
           certainty == IF c.value = Undefined THEN "inferred" ELSE c.value
       IN  cert' = IF ~c.ok
                   THEN [cert EXCEPT !.out = <<>>, !.err = TRUE]
                   ELSE [stored |-> Append(cert.stored, certainty),
                         out |-> <<normalizeCertaintyValue(certainty)>>,
                         err |-> FALSE]
  /\ UNCHANGED <<db, last, ncmd, retry, conc, rw, call, proc>>

\* handleUpdateCommand: certainty = ? only when --certainty is given; the
\* updated row is printed through normalizeSqliteRow.
CertUpdate ==
  /\ \E i \in DOMAIN cert.stored, flagOpt \in Opt(CertaintyInputs) :
       LET c == requireCertainty(flagOpt)
           certainty == IF c.value = Undefined THEN cert.stored[i] ELSE c.value
       IN  cert' = IF ~c.ok
                   THEN [cert EXCEPT !.out = <<>>, !.err = TRUE]
                   ELSE [stored |-> [cert.stored EXCEPT ![i] = certainty],
                         out |-> <<normalizeCertaintyValue(certainty)>>,
                         err |-> FALSE]
  /\ UNCHANGED <<db, last, ncmd, retry, conc, rw, call, proc>>

\* An import entry: its certainty ("inferred" when it is not a string) is
\* canonicalized; the entry is skipped when that gives undefined, else the
\* canonical value is stored.  The result carries no row.
CertImport ==
  /\ Len(cert.stored) < MaxCertRows
  /\ \E given \in CertaintyInputs \cup {Undefined} :
       LET certaintyRaw == IF given = Undefined THEN "inferred" ELSE given
           certaintyNormalized == canonicalizeCertainty(certaintyRaw)
       IN  cert' = IF certaintyNormalized = Undefined
                   THEN [cert EXCEPT !.out = <<>>, !.err = FALSE]
                   ELSE [stored |-> Append(cert.stored, certaintyNormalized),
                         out |-> <<>>, err |-> FALSE]
  /\ UNCHANGED <<db, last, ncmd, retry, conc, rw, call, proc>>

\* get, list, query and export print each row through normalizeSqliteRow.
CertRead ==
  /\ cert.stored # <<>>
  /\ cert' = [cert EXCEPT
                !.out = [i \in DOMAIN cert.stored |->
                           normalizeCertaintyValue(cert.stored[i])],
                !.err = FALSE]
  /\ UNCHANGED <<db, last, ncmd, retry, conc, rw, call, proc>>

\* No call made.
NoCall == [fn |-> "none"]

\* No process at work.
NoProcs == [lock |-> 0]

(***************************************************************************)
(* Searches of the index: the query command, the conflict search of add    *)
(* and import, and --match of update and deprecate.  call holds the text   *)
(* searched for, its tokens, whether a MATCH statement was run and the     *)
(* rows the search gave back.                                              *)
(***************************************************************************)
\* findMemoryByMatch: the active rows the query's terms match; the row that
\* bm25 ranks first is one of them, and there is none without terms.
findMemoryByMatch(d, query) ==
  LET ftsQuery == buildFtsQueryFromTerms(extractTerms(query))
  IN  IF ftsQuery = <<>> THEN {} ELSE FtsQuery(d, ftsQuery) \cap ActiveIds(d)

SearchWords == {"the", "a", "jwt", "auth", "cache"}

\* The texts searched for: none, one or two words, stopwords and one-letter
\* words among them.
SearchTexts ==
  {<<>>} \cup {<<w>> : w \in SearchWords}
         \cup {<<v, w>> : v \in SearchWords, w \in SearchWords}

\* Whether the search of a text reaches the MATCH statement.
IndexQueryIssued(text) == buildFtsQueryFromTerms(extractTerms(text)) # <<>>

Searched(fn, text, filters, rows) ==
  /\ call' = [fn |-> fn, text |-> text, tokens |-> extractTerms(text),
              filters |-> filters, issued |-> IndexQueryIssued(text),
              rows |-> rows]
  /\ UNCHANGED <<db, last, ncmd, retry, conc, rw, cert, proc>>

SearchQuery ==
  \E text \in SearchTexts, filters \in FilterVals :
    Searched("query", text, filters, fetchQueryResults(db, text, filters))

SearchConflicts ==
  \E text \in SearchTexts :
    Searched("conflicts", text, NoFilters,
             detectPotentialConflicts(db, text, <<>>, <<>>))

\* --match: the first row of the ranking, 0 when there is none (null).
SearchMatch ==
  \E text \in SearchTexts :
    \E id \in (IF findMemoryByMatch(db, text) = {} THEN {0}
               ELSE findMemoryByMatch(db, text)) :
      Searched("match", text, NoFilters, {id} \ {0})

(***************************************************************************)
(* What the query command prints.                                          *)
(***************************************************************************)
\* parseOutputMode: --quiet prints what --json-min prints.
OutputModes == {"json", "brief", "json-min"}

\* queryEmptyResultPayload: of the filters it was given the payload names
\* include_deprecated (and --tags, --type, --certainty), not --status.
queryEmptyResultPayload(term, filters, queryTokens) ==
  [kind |-> "diagnostics", results |-> {}, search_term |-> term,
   derived_terms |-> queryTokens,
   filters |-> [include_deprecated |-> filters.includeDeprecated],
   hints |-> {"broader keywords", "--include-deprecated", "--tags/--type/--certainty"}]

\* printEmptyQueryResults: --brief prints the lines of no row.
printEmptyQueryResults(term, filters, queryTokens, mode) ==
  IF mode = "brief" THEN [kind |-> "brief", lines |-> {}]
  ELSE queryEmptyResultPayload(term, filters, queryTokens)

printScoredResults(mode, results) ==
  IF mode = "json-min"
  THEN [kind |-> "min", count |-> Cardinality(results), ids |-> results]
  ELSE IF mode = "brief" THEN [kind |-> "brief", lines |-> results]
  ELSE [kind |-> "rows", results |-> results]

\* handleQueryCommand: what is printed for the rows the search gave.
handleQueryCommand(term, filters, mode, results) ==
  IF term = <<>> THEN [kind |-> "usage"]
  ELSE IF results = {}
  THEN printEmptyQueryResults(term, filters, extractTerms(term), mode)
  ELSE printScoredResults(mode, results)

QueryPrinted(text, filters, mode, results) ==
  /\ call' = [fn |-> "handleQuery", text |-> text, tokens |-> extractTerms(text),
              filters |-> filters, issued |-> IndexQueryIssued(text),
              rows |-> results, mode |-> mode,
              printed |-> handleQueryCommand(text, filters, mode, results)]
  /\ UNCHANGED <<db, last, ncmd, retry, conc, rw, cert, proc>>

QueryPrints ==
  \E text \in SearchTexts, filters \in FilterVals, mode \in OutputModes :
    QueryPrinted(text, filters, mode, fetchQueryResults(db, text, filters))

(***************************************************************************)
(* The score of a row.  Weights are in thousandths, the precision          *)
(* toFixed(3) leaves; the age of a row is in whole days, its index rank in *)
(* ten-thousandths.                                                        *)
(***************************************************************************)
\* certaintyWeight: the legacy names weigh as the names they stand for.
certaintyWeight(certainty) ==
  IF normalizeCertaintyValue(certainty) = "verified" THEN 20000
  ELSE IF normalizeCertaintyValue(certainty) = "inferred" THEN 10000
  ELSE 2000

\* recencyWeight of updated_at, <<>> when it is no date and else the days
\* since: 30 * (1 - min(max(0, age), 180) / 180), rounded to the thousandth.
recencyWeight(updatedAt) ==
  IF updatedAt = <<>> THEN 0
  ELSE LET ageDays == IF updatedAt[1] < 0 THEN 0 ELSE updatedAt[1]
           capped == IF ageDays < 180 THEN ageDays ELSE 180
       IN  (2 * (90000 - 500 * capped) + 3) \div 6

\* tagExactnessWeight, by how the tags meet the query's tokens.
tagExactnessWeight(tagMatch) ==
  IF tagMatch = "exact" THEN 18000
  ELSE IF tagMatch = "partial" THEN 8000
  ELSE 0

updateCountWeight_Modulo(updateCount) ==
  IF updateCount <= 0 THEN 0 ELSE (updateCount % 10) * 2000

\* updateCountWeight: min(count, 10) * 2, nothing for a count of 0 or less.
updateCountWeight(updateCount) ==
  IF updateCount <= 0 THEN 0
  ELSE (IF updateCount < 10 THEN updateCount ELSE 10) * 2000

\* ftsWeight: -rank * 10 held within 0 .. 30; <<>> is a rank that is no number.
ftsWeight(ftsRank) ==
  IF ftsRank = <<>> THEN 0
  ELSE IF -ftsRank[1] < 0 THEN 0
  ELSE IF -ftsRank[1] > 30000 THEN 30000
  ELSE -ftsRank[1]

scoreMemory(row) ==
  recencyWeight(row.updated_at) + tagExactnessWeight(row.tag_match)
    + updateCountWeight(row.update_count) + certaintyWeight(row.certainty)
    + ftsWeight(row.fts_rank)

MaxAgeDays == 181
MaxUpdateCount == 11

AgeDays == -1 .. MaxAgeDays
UpdateCounts == -1 .. MaxUpdateCount

\* The rows scored.
ScoreRows ==
  [updated_at : {<<>>} \cup {<<d>> : d \in AgeDays},
   update_count : UpdateCounts,
   certainty : {"verified", "soft", "speculative"},
   tag_match : {"exact", "none"},
   fts_rank : {<<>>, <<-12346>>}]

\* shapeRowsWithScore gives the row its score.
ScoreRow ==
  /\ call.fn = "row"
  /\ call' = [fn |-> "scoreMemory", row |-> call.row, score |-> scoreMemory(call.row)]
  /\ UNCHANGED <<db, last, ncmd, retry, conc, rw, cert, proc>>

(***************************************************************************)
(* The doctor scan for near duplicates.  rows are the active records in    *)
(* the order loadActiveMemories reads them; an index is a position in      *)
(* rows.  Similarities are in thousandths.                                 *)
(***************************************************************************)
NEAR_DUPLICATE_THRESHOLD == 780
NEAR_DUPLICATE_MAX_CANDIDATES == 120
MAX_POSTINGS_PER_TOKEN == 200
MAX_CANDIDATE_TOKENS == 12

\* setFromTerms of a record's content, tags and context: a Set keeps the
\* order of insertion.
termSet(row) == extractTerms(row.content \o row.tags \o row.context)

\* jaccardSimilarity: |left /\ right| / |left \/ right| rounded to the
\* thousandth, 1 for two empty sets.
jaccardSimilarity(left, right) ==
  IF left = {} /\ right = {} THEN 1000
  ELSE (2000 * Cardinality(left \cap right) + Cardinality(left \cup right))
         \div (2 * Cardinality(left \cup right))

\* The similarity of two records.
Similarity(a, b) == jaccardSimilarity(Words(termSet(a)), Words(termSet(b)))

\* exactDuplicateMap: the key records are grouped by.
duplicateKey(row) == <<row.content, row.tags, row.context>>

\* detectExactDuplicates: duplicateKeyById holds the records of a group of
\* two or more.
duplicateKeyById(rows) ==
  {rows[i].id : i \in {k \in DOMAIN rows :
     \E j \in DOMAIN rows : j # k /\ duplicateKey(rows[j]) = duplicateKey(rows[k])}}

isComparableNearDuplicate(row, candidate, dup) ==
  /\ candidate.id # row.id
  /\ ~(/\ row.id \in dup
       /\ candidate.id \in dup
       /\ duplicateKey(row) = duplicateKey(candidate))

\* The inner loop of candidateIndexes: the indexes of one token are added
\* until the candidates are NEAR_DUPLICATE_MAX_CANDIDATES.
RECURSIVE addIndexes(_, _)
addIndexes(candidate, indexes) ==
  IF indexes = <<>> \/ Len(candidate) >= NEAR_DUPLICATE_MAX_CANDIDATES
  THEN candidate
  ELSE addIndexes(IF Head(indexes) \in Words(candidate) THEN candidate
                  ELSE Append(candidate, Head(indexes)),
                  Tail(indexes))

RECURSIVE addTokens(_, _, _)
addTokens(candidate, tokens, postings) ==
  IF tokens = <<>> \/ Len(candidate) >= NEAR_DUPLICATE_MAX_CANDIDATES
  THEN candidate
  ELSE addTokens(addIndexes(candidate, postings[Head(tokens)]), Tail(tokens), postings)

\* candidateIndexes: the rows the postings hold for the first 12 tokens.
candidateIndexes(terms, postings) ==
  addTokens(<<>>, SubSeq(terms, 1, IF Len(terms) < MAX_CANDIDATE_TOKENS
                                   THEN Len(terms) ELSE MAX_CANDIDATE_TOKENS),
            postings)

\* upsertPostings: rowIndex joins the postings of each of its tokens that
\* hold fewer than MAX_POSTINGS_PER_TOKEN.
upsertPostings(postings, terms, rowIndex) ==
  [token \in DOMAIN postings |->
     IF token \in Words(terms) /\ Len(postings[token]) < MAX_POSTINGS_PER_TOKEN
     THEN Append(postings[token], rowIndex)
     ELSE postings[token]]

RECURSIVE bestNearDuplicateForRow_First(_, _, _, _, _)
bestNearDuplicateForRow_First(row, rows, candidates, dup, best) ==
  IF candidates = <<>> THEN best
  ELSE IF ~isComparableNearDuplicate(row, rows[Head(candidates)], dup)
  THEN bestNearDuplicateForRow_First(row, rows, Tail(candidates), dup, best)
  ELSE IF Similarity(row, rows[Head(candidates)]) < NEAR_DUPLICATE_THRESHOLD
  THEN bestNearDuplicateForRow_First(row, rows, Tail(candidates), dup, best)
  ELSE IF best = <<>>
  THEN bestNearDuplicateForRow_First(row, rows, Tail(candidates), dup,
         <<[id |-> rows[Head(candidates)].id,
            similarity |-> Similarity(row, rows[Head(candidates)])]>>)
  ELSE bestNearDuplicateForRow_First(row, rows, Tail(candidates), dup, best)

\* bestNearDuplicateForRow: the first candidate of the highest similarity at
\* or over the threshold; best is <<>> while there is none.
RECURSIVE bestNearDuplicateForRow(_, _, _, _, _)
bestNearDuplicateForRow(row, rows, candidates, dup, best) ==
  IF candidates = <<>> THEN best
  ELSE IF ~isComparableNearDuplicate(row, rows[Head(candidates)], dup)
  THEN bestNearDuplicateForRow(row, rows, Tail(candidates), dup, best)
  ELSE IF Similarity(row, rows[Head(candidates)]) < NEAR_DUPLICATE_THRESHOLD
  THEN bestNearDuplicateForRow(row, rows, Tail(candidates), dup, best)
  ELSE IF best = <<>> \/ Similarity(row, rows[Head(candidates)]) > best[1].similarity
  THEN bestNearDuplicateForRow(row, rows, Tail(candidates), dup,
         <<[id |-> rows[Head(candidates)].id,
            similarity |-> Similarity(row, rows[Head(candidates)])]>>)
  ELSE bestNearDuplicateForRow(row, rows, Tail(candidates), dup, best)

\* The calls of jaccardSimilarity for one row: <<rowIndex, candidateIndex>>
\* for each candidate that is comparable.
comparisons(rowIndex, rows, candidates, dup) ==
  [n \in DOMAIN SelectSeq(candidates,
        LAMBDA c : isComparableNearDuplicate(rows[rowIndex], rows[c], dup)) |->
     <<rowIndex, SelectSeq(candidates,
        LAMBDA c : isComparableNearDuplicate(rows[rowIndex], rows[c], dup))[n]>>]

\* The finding pushed for a row whose best partner is best.
nearFindings(row, best) ==
  IF best = <<>> THEN <<>>
  ELSE <<[keep_id |-> best[1].id, duplicate_id |-> row.id,
          similarity |-> best[1].similarity]>>

\* One turn of the loop of detectNearDuplicates, for a row that has tokens:
\* candidates are looked up, then the row's tokens join the postings.
scanRow(rows, dup, rowIndex, scan, candidates) ==
  [findings |-> scan.findings \o
                nearFindings(rows[rowIndex],
                  bestNearDuplicateForRow(rows[rowIndex], rows, candidates, dup, <<>>)),
   postings |-> upsertPostings(scan.postings, termSet(rows[rowIndex]), rowIndex),
   compared |-> scan.compared \o comparisons(rowIndex, rows, candidates, dup)]

RECURSIVE indexAll(_, _, _)
indexAll(rows, rowIndex, postings) ==
  IF rowIndex > Len(rows) THEN postings
  ELSE indexAll(rows, rowIndex + 1,
                upsertPostings(postings, termSet(rows[rowIndex]), rowIndex))

RECURSIVE scanIndexed(_, _, _, _)
scanIndexed(rows, dup, rowIndex, scan) ==
  IF rowIndex > Len(rows) THEN scan
  ELSE IF termSet(rows[rowIndex]) = <<>>
  THEN scanIndexed(rows, dup, rowIndex + 1, scan)
  ELSE scanIndexed(rows, dup, rowIndex + 1,
         [scanRow(rows, dup, rowIndex, scan,
                  candidateIndexes(termSet(rows[rowIndex]), scan.postings))
            EXCEPT !.postings = scan.postings])

detectNearDuplicates_IndexedFirst(rows, dup, rowIndex, scan) ==
  scanIndexed(rows, dup, rowIndex,
              [scan EXCEPT !.postings = indexAll(rows, rowIndex, scan.postings)])

\* detectNearDuplicates from rowIndex on: [findings, postings, compared].
RECURSIVE detectNearDuplicates(_, _, _, _)
detectNearDuplicates(rows, dup, rowIndex, scan) ==
  IF rowIndex > Len(rows) THEN scan
  ELSE IF termSet(rows[rowIndex]) = <<>>
  THEN detectNearDuplicates(rows, dup, rowIndex + 1, scan)
  ELSE detectNearDuplicates(rows, dup, rowIndex + 1,
         scanRow(rows, dup, rowIndex, scan,
                 candidateIndexes(termSet(rows[rowIndex]), scan.postings)))

\* The records the scanned stores hold: two of the same tokens in different
\* words, one a token longer, one of that token set by its tag, one that
\* shares a single token, one unrelated, two without a token.
DoctorRecords ==
  {[content |-> <<"jwt", "rs256", "key", "rotation">>, tags |-> <<>>, context |-> <<>>],
   [content |-> <<"the", "jwt", "rs256", "key", "rotation">>, tags |-> <<>>, context |-> <<>>],
   [content |-> <<"jwt", "rs256", "key", "rotation", "weekly">>, tags |-> <<>>, context |-> <<>>],
   [content |-> <<"jwt", "rs256", "key", "rotation">>, tags |-> <<"weekly">>, context |-> <<>>],
   [content |-> <<"jwt", "cache">>, tags |-> <<>>, context |-> <<>>],
   [content |-> <<"cache", "ttl">>, tags |-> <<>>, context |-> <<"cache">>],
   [content |-> <<"the">>, tags |-> <<>>, context |-> <<>>],
   [content |-> <<"a">>, tags |-> <<>>, context |-> <<>>]}

DoctorTokens == UNION {Words(termSet(r)) : r \in DoctorRecords}

MaxDoctorRows == 3

\* loadActiveMemories: ORDER BY updated_at DESC, id DESC; the record read
\* first is the one added last.
loadActiveMemories(records) ==
  [k \in DOMAIN records |->
     [id |-> Len(records) - k + 1, content |-> records[k].content,
      tags |-> records[k].tags, context |-> records[k].context]]

DoctorStores ==
  UNION {[1 .. n -> DoctorRecords] : n \in 0 .. MaxDoctorRows}

\* handleDoctorCommand: the near duplicates found in rows.
DoctorScan ==
  /\ call.fn = "rows"
  /\ call' = [fn |-> "doctor", rows |-> call.rows,
              scan |-> detectNearDuplicates(call.rows, duplicateKeyById(call.rows), 1,
                         [findings |-> <<>>,
                          postings |-> [token \in DoctorTokens |-> <<>>],
                          compared |-> <<>>])]
  /\ UNCHANGED <<db, last, ncmd, retry, conc, rw, cert, proc>>

(***************************************************************************)
(* The fact comparator of verify and diff.  The texts compared are         *)
(* sequences of words as typed; can't is the one word among them that the  *)
(* token pattern [a-z0-9]+ breaks in two.                                  *)
(***************************************************************************)
CONFLICT_SIMILARITY == 350
MAX_DIFF_TERMS == 12

NegationWords == {"not", "no", "never", "without", "cannot", "can't"}

\* The pieces /[a-z0-9]+/g finds in a text.
RECURSIVE wordPieces(_)
wordPieces(text) ==
  IF text = <<>> THEN <<>>
  ELSE (IF Head(text) = "can't" THEN <<"can", "t">> ELSE <<Head(text)>>)
         \o wordPieces(Tail(text))

setFromTerms(input) == extractTerms(wordPieces(input))

\* hasNegation: /\b(not|no|never|without|cannot|can't)\b/ finds a word.
hasNegation(text) == \E i \in DOMAIN text : text[i] \in NegationWords

termsDifference(source, against) ==
  SelectSeq(source, LAMBDA term : term \notin Words(against))

FirstTerms(terms) ==
  SubSeq(terms, 1, IF Len(terms) < MAX_DIFF_TERMS THEN Len(terms) ELSE MAX_DIFF_TERMS)

compareFact_SimilarityOnly(stored, candidate) ==
  [similarity |-> jaccardSimilarity(Words(setFromTerms(stored)),
                                    Words(setFromTerms(candidate))),
   conflict |-> jaccardSimilarity(Words(setFromTerms(stored)),
                                  Words(setFromTerms(candidate))) < CONFLICT_SIMILARITY,
   addedTerms |-> FirstTerms(termsDifference(setFromTerms(candidate), setFromTerms(stored))),
   removedTerms |-> FirstTerms(termsDifference(setFromTerms(stored), setFromTerms(candidate)))]

compareFact(stored, candidate) ==
  [similarity |-> jaccardSimilarity(Words(setFromTerms(stored)),
                                    Words(setFromTerms(candidate))),
   conflict |-> \/ hasNegation(stored) # hasNegation(candidate)
                \/ jaccardSimilarity(Words(setFromTerms(stored)),
                                     Words(setFromTerms(candidate))) < CONFLICT_SIMILARITY,
   addedTerms |-> FirstTerms(termsDifference(setFromTerms(candidate), setFromTerms(stored))),
   removedTerms |-> FirstTerms(termsDifference(setFromTerms(stored), setFromTerms(candidate)))]

\* The texts compared: with and without each negation word, close to and
\* far from one another, and one without a token.
CompareTexts ==
  {<<"auth", "jwt", "rs256">>,
   <<"auth", "jwt", "rs256", "signatures">>,
   <<"auth", "does", "not", "use", "jwt">>,
   <<"auth", "never", "jwt", "rs256">>,
   <<"auth", "jwt", "without", "rs256">>,
   <<"auth", "cannot", "jwt", "rs256">>,
   <<"auth", "can't", "jwt", "rs256">>,
   <<"no", "auth", "jwt", "rs256">>,
   <<"database", "postgres", "writes">>,
   <<"database", "not", "postgres">>,
   <<"auth", "jwt", "cache", "ttl", "postgres">>,
   <<"the">>}

\* handleVerifyCommand and handleDiffCommand compare the stored content with
\* the candidate given.
CompareFact ==
  /\ call.fn = "texts"
  /\ call' = [fn |-> "compareFact", stored |-> call.stored,
              candidate |-> call.candidate,
              result |-> compareFact(call.stored, call.candidate)]
  /\ UNCHANGED <<db, last, ncmd, retry, conc, rw, cert, proc>>

(***************************************************************************)
(* Merging result sets: suggest merges the rows the index found with the   *)
(* rows the path and tag hints found; sweep merges the rows of its parts.  *)
(* A row is its id and its score, in thousandths.                          *)
(***************************************************************************)
HINT_BONUS == 12000
SUGGEST_LIMIT == 20

MaxOf(a, b) == IF a >= b THEN a ELSE b

IdsOf(rows) == {rows[n].id : n \in DOMAIN rows}

\* The row a result set holds for id.
RowOf(rows, id) == rows[CHOOSE n \in DOMAIN rows : rows[n].id = id]

mergedRow_KeepExisting(existing, row) == existing

\* The row set for an id both sets hold: the existing row, its score the
\* larger of its own and the secondary row's with the bonus.
mergedRow(existing, row) ==
  [existing EXCEPT !.score = MaxOf(existing.score, row.score + HINT_BONUS)]

\* The loop of mergeSuggestionResults over secondary; byId keeps the order
\* of insertion.
RECURSIVE mergeSecondary(_, _)
mergeSecondary(byId, secondary) ==
  IF secondary = <<>> THEN byId
  ELSE IF Head(secondary).id \notin IdsOf(byId)
  THEN mergeSecondary(
         Append(byId, [Head(secondary) EXCEPT !.score = @ + HINT_BONUS]),
         Tail(secondary))
  ELSE mergeSecondary(
         [n \in DOMAIN byId |->
            IF byId[n].id = Head(secondary).id
            THEN mergedRow(byId[n], Head(secondary)) ELSE byId[n]],
         Tail(secondary))

\* Array.prototype.sort by score, highest first; rows of equal score keep
\* their order.
RECURSIVE sortByScore(_)
sortByScore(rows) ==
  IF rows = <<>> THEN <<>>
  ELSE SelectSeq(sortByScore(Tail(rows)), LAMBDA r : r.score > Head(rows).score)
         \o <<Head(rows)>>
         \o SelectSeq(sortByScore(Tail(rows)), LAMBDA r : r.score <= Head(rows).score)

mergeSuggestionResults(primary, secondary) ==
  SubSeq(sortByScore(mergeSecondary(primary, secondary)), 1,
         IF Len(mergeSecondary(primary, secondary)) < SUGGEST_LIMIT
         THEN Len(mergeSecondary(primary, secondary)) ELSE SUGGEST_LIMIT)

\* mergeSweepRows: the higher of the two scores, and the part's label joins
\* the sources.
mergeSweepRows(left, right, source) ==
  [id |-> (IF right.score > left.score THEN right ELSE left).id,
   score |-> MaxOf(left.score, right.score),
   sources |-> IF \E n \in DOMAIN left.sources : left.sources[n] = source
               THEN left.sources ELSE Append(left.sources, source)]

MaxResultId == 2
ResultScores == {2000, 14000, 30500}

\* The result sets merged: rows of distinct ids, highest score first, as
\* shapeRowsWithScore leaves them.
ResultSets ==
  {rows \in UNION {[1 .. n -> [id : 1 .. MaxResultId, score : ResultScores]] :
                     n \in 0 .. MaxResultId} :
     \A m, n \in DOMAIN rows :
       m < n => rows[m].id # rows[n].id /\ rows[m].score >= rows[n].score}

\* collectSuggestResults: the index's rows are primary, the hints' secondary.
MergeSuggestion ==
  /\ call.fn = "sets"
  /\ call' = [fn |-> "mergeSuggestion", primary |-> call.primary,
              secondary |-> call.secondary,
              merged |-> mergeSuggestionResults(call.primary, call.secondary)]
  /\ UNCHANGED <<db, last, ncmd, retry, conc, rw, cert, proc>>

\* mergeSweepResults, for the rows two parts hold of one id: the first part
\* set the row's sources, the second is merged into it.
MergeSweep ==
  /\ call.fn = "sets"
  /\ call.primary # <<>>
  /\ \E n \in DOMAIN call.secondary :
       /\ call.secondary[n].id = call.primary[1].id
       /\ call' = [fn |-> "mergeSweepRows", primary |-> <<call.primary[1]>>,
                   secondary |-> <<call.secondary[n]>>,
                   merged |-> <<mergeSweepRows(
                                [id |-> call.primary[1].id,
                                 score |-> call.primary[1].score,
                                 sources |-> <<"suggest">>],
                                call.secondary[n], "query")>>]
  /\ UNCHANGED <<db, last, ncmd, retry, conc, rw, cert, proc>>

(***************************************************************************)
(* Two processes opening one store file in write mode.  db is the file as  *)
(* committed; a process that holds the write lock works on its own copy    *)
(* (proc.s[p].w) until COMMIT.  BEGIN IMMEDIATE is the statement that      *)
(* finds the lock taken; each statement runs under withBusyRetry.          *)
(***************************************************************************)
Openers == {1, 2}

NoWork == [db |-> Uninitialized, columnsSeen |-> {}, needsFtsRebuild |-> FALSE]

OpenStart ==
  [lock |-> 0,
   s |-> [p \in Openers |->
            [pc |-> "open", attempts |-> 0, k |-> 0, w |-> NoWork,
             seen |-> <<>>, err |-> "none"]]]

Visible_Uncommitted(committed, work) == work

\* What a read finds in a file on which another connection has an open
\* transaction with uncommitted work: the committed content.
Visible(committed, work) == committed

\* The store p's reads find.
StoreRead(p) ==
  IF proc.lock \in Openers \ {p}
  THEN Visible(db, proc.s[proc.lock].w.db)
  ELSE db

\* migrateSchema, its first lines: with the version current and the schema
\* ready there is nothing to do; else the migration begins.
Checked(p, d) ==
  /\ proc' = [proc EXCEPT
                !.s[p].seen = <<d>>,
                !.s[p].pc = IF getUserVersion(d) >= SCHEMA_VERSION /\ isSchemaReady(d)
                            THEN "done" ELSE "begin"]
  /\ UNCHANGED <<db, last, ncmd, retry, conc, rw, cert, call>>

CheckVersion(p) ==
  /\ proc.s[p].pc = "open"
  /\ Checked(p, StoreRead(p))

\* BEGIN IMMEDIATE finds the write lock free and takes it.
BeginImmediate(p) ==
  /\ proc.s[p].pc = "begin"
  /\ LockFree(proc.lock)
  /\ proc' = [proc EXCEPT !.lock = p, !.s[p].pc = "txn", !.s[p].k = 2,
                          !.s[p].w = [NoWork EXCEPT !.db = db]]
  /\ UNCHANGED <<db, last, ncmd, retry, conc, rw, cert, call>>

\* BEGIN IMMEDIATE throws SQLITE_BUSY and withBusyRetry goes round again.
BeginBusy(p) ==
  /\ proc.s[p].pc = "begin"
  /\ ~LockFree(proc.lock)
  /\ isBusyError(BusyErr) /\ ~BudgetSpent(proc.s[p].attempts)
  /\ proc' = [proc EXCEPT !.s[p].attempts = @ + 1]
  /\ UNCHANGED <<db, last, ncmd, retry, conc, rw, cert, call>>

\* BEGIN IMMEDIATE throws SQLITE_BUSY and withBusyRetry rethrows it: the
\* open fails, no transaction was begun.
BeginFails(p) ==
  /\ proc.s[p].pc = "begin"
  /\ ~LockFree(proc.lock)
  /\ ~isBusyError(BusyErr) \/ BudgetSpent(proc.s[p].attempts)
  /\ proc' = [proc EXCEPT !.s[p].pc = "failed", !.s[p].err = "busy"]
  /\ UNCHANGED <<db, last, ncmd, retry, conc, rw, cert, call>>

\* The next statement of the migration on p's copy, r its outcome: a
\* statement that throws is answered by ROLLBACK.
Stated(p, r) ==
  /\ proc' = IF r.ok
             THEN [proc EXCEPT !.s[p].w = r.w, !.s[p].k = @ + 1]
             ELSE [proc EXCEPT !.lock = 0, !.s[p].pc = "failed",
                               !.s[p].err = "sqlite", !.s[p].w = NoWork]
  /\ UNCHANGED <<db, last, ncmd, retry, conc, rw, cert, call>>

MigrationStatement(p) ==
  /\ proc.s[p].pc = "txn"
  /\ MigrationSteps[proc.s[p].k] # "commit"
  /\ Stated(p, MigrationStep(MigrationSteps[proc.s[p].k], proc.s[p].w))

\* COMMIT: p's copy becomes the file and the lock is given back.
CommitMigration(p) ==
  /\ proc.s[p].pc = "txn"
  /\ MigrationSteps[proc.s[p].k] = "commit"
  /\ db' = proc.s[p].w.db
  /\ proc' = [proc EXCEPT !.lock = 0, !.s[p].pc = "done"]
  /\ UNCHANGED <<last, ncmd, retry, conc, rw, cert, call>>

(***************************************************************************)
(* Two processes importing the same entry into one store.  Each statement  *)
(* of processImportEntry runs by itself, in autocommit: the store can      *)
(* change between a process's SELECTs and its INSERT.                      *)
(***************************************************************************)
Importers == {1, 2}

\* The entry both files hold: active, with or without a tag.
SharedEntries ==
  [content : ContentVals, tags : TagVals, context : {<<>>},
   status : {"active"}, superseded_by : {0}, update_count : {0}]

ImportsStart(before, entry) ==
  [lock |-> 0, before |-> before, entry |-> entry,
   s |-> [p \in Importers |-> [pc |-> "duplicate", status |-> "none", id |-> 0]]]

\* processImportEntry after findExactDuplicate gave duplicate.
DuplicateChecked(p, duplicate) ==
  /\ proc' = IF duplicate # {}
             THEN [proc EXCEPT !.s[p] = [pc |-> "done", status |-> "skip",
                                         id |-> MinOf(duplicate)]]
             ELSE [proc EXCEPT !.s[p].pc = "conflicts"]
  /\ UNCHANGED <<db, last, ncmd, retry, conc, rw, cert, call>>

FindDuplicate(p) ==
  /\ proc.s[p].pc = "duplicate"
  /\ DuplicateChecked(p, findExactDuplicate(db, proc.entry.content,
                                            proc.entry.tags, proc.entry.context))

\* processImportEntry after detectPotentialConflicts gave conflicts.
ConflictsChecked(p, conflicts) ==
  /\ proc' = IF proc.entry.status = "active" /\ conflicts # {}
             THEN [proc EXCEPT !.s[p] = [pc |-> "done", status |-> "conflict", id |-> 0]]
             ELSE [proc EXCEPT !.s[p].pc = "insert"]
  /\ UNCHANGED <<db, last, ncmd, retry, conc, rw, cert, call>>

DetectConflicts(p) ==
  /\ proc.s[p].pc = "conflicts"
  /\ ConflictsChecked(p, detectPotentialConflicts(db, proc.entry.content,
                                                  proc.entry.tags, proc.entry.context))

\* runImportInsert, and the result the import prints for the entry.
InsertEntry(p) ==
  /\ proc.s[p].pc = "insert"
  /\ db' = runImportInsert(db, proc.entry)
  /\ proc' = [proc EXCEPT !.s[p] = [pc |-> "done", status |-> "success",
                                    id |-> db.seq + 1]]
  /\ UNCHANGED <<last, ncmd, retry, conc, rw, cert, call>>

(***************************************************************************)
(* Specifications                                                          *)
(***************************************************************************)
\* Invocations of the tool, one after another, on a store some release left.
Init ==
  /\ db \in InitialStores
  /\ last = NoLast
  /\ ncmd = 0
  /\ retry = RetryStart
  /\ conc = ConcStart
  /\ rw = RwStart("delete")
  /\ cert = CertStart(<<>>)
  /\ proc = NoProcs
  /\ call = NoCall

Next ==
  \/ AddCmd
  \/ UpdateCmd
  \/ DeprecateCmd
  \/ DeleteCmd
  \/ ImportCmd
  \/ MigrateCmd
  \/ QueryCmd
  \/ ListCmd
  \/ ExportCmd
  \/ LookupCmd
  \/ GcCmd
  \/ ReportCmd
  \/ OpenFails

Spec == Init /\ [][Next]_vars

\* One import of a file of several entries, into a store some release left or
\* one that holds a tagged record made by add.
TaggedRow == 1 :> DefaultRow(<<"auth", "jwt">>, <<"auth">>, <<>>)

InitImport ==
  /\ db \in InitialStores \cup {Current(TaggedRow)}
  /\ last = NoLast
  /\ ncmd = 0
  /\ retry = RetryStart
  /\ conc = ConcStart
  /\ rw = RwStart("delete")
  /\ cert = CertStart(<<>>)
  /\ proc = NoProcs
  /\ call = NoCall

NextImport == ImportBatch

SpecImport == InitImport /\ [][NextImport]_vars

\* The commands as they store and print certainty, on a store without rows or
\* with one row whose certainty is the column default 'soft' the migration
\* gave it.
InitCertainty ==
  /\ db = Uninitialized
  /\ last = NoLast
  /\ ncmd = 0
  /\ retry = RetryStart
  /\ conc = ConcStart
  /\ rw = RwStart("delete")
  /\ cert \in {CertStart(<<>>), CertStart(<<"soft">>)}
  /\ proc = NoProcs
  /\ call = NoCall

NextCertainty ==
  \/ CertAdd
  \/ CertUpdate
  \/ CertImport
  \/ CertRead

SpecCertainty == InitCertainty /\ [][NextCertainty]_vars

\* One call of withBusyRetry.
InitRetry ==
  /\ db = Uninitialized
  /\ last = NoLast
  /\ ncmd = 0
  /\ retry = RetryStart
  /\ conc = ConcStart
  /\ rw = RwStart("delete")
  /\ cert = CertStart(<<>>)
  /\ proc = NoProcs
  /\ call = NoCall

NextRetry ==
  \/ OperationReturns
  \/ OperationThrows

SpecRetry == InitRetry /\ [][NextRetry]_vars

\* Two sessions adding to one store.
InitConc ==
  /\ db = Current(NoRows)
  /\ last = NoLast
  /\ ncmd = 0
  /\ retry = RetryStart
  /\ conc = ConcStart
  /\ rw = RwStart("delete")
  /\ cert = CertStart(<<>>)
  /\ proc = NoProcs
  /\ call = NoCall

NextConc ==
  \/ \E s \in Sessions : IssueInsert(s)
  \/ \E s \in Sessions : AcquireLock(s)
  \/ \E s \in Sessions : BusyRetry(s)
  \/ \E s \in Sessions : BusyFail(s)
  \/ \E s \in Sessions : CommitInsert(s)

SpecConc == InitConc /\ [][NextConc]_vars

\* A read session beside a writing process, on a store a write-mode open left.
InitRead ==
  /\ db = Uninitialized
  /\ last = NoLast
  /\ ncmd = 0
  /\ retry = RetryStart
  /\ conc = ConcStart
  /\ rw \in {RwStart(j) : j \in JournalsAfterOpen}
  /\ cert = CertStart(<<>>)
  /\ proc = NoProcs
  /\ call = NoCall

NextRead ==
  \/ WriterBegin
  \/ WriterFlush
  \/ WriterCommit
  \/ ReaderStart
  \/ ReaderReads
  \/ ReaderBusy

SpecRead == InitRead /\ [][NextRead]_vars

\* Searches of a current store that holds an active and a deprecated record.
InitSearch ==
  /\ db \in {Current(OneRow), Current(TwoRows)}
  /\ last = NoLast
  /\ ncmd = 0
  /\ retry = RetryStart
  /\ conc = ConcStart
  /\ rw = RwStart("delete")
  /\ cert = CertStart(<<>>)
  /\ proc = NoProcs
  /\ call = NoCall

NextSearch ==
  \/ SearchQuery
  \/ SearchConflicts
  \/ SearchMatch
  \/ QueryPrints

SpecSearch == InitSearch /\ [][NextSearch]_vars

\* The scoring of one row a query found.
InitScore ==
  /\ db = Current(OneRow)
  /\ last = NoLast
  /\ ncmd = 0
  /\ retry = RetryStart
  /\ conc = ConcStart
  /\ rw = RwStart("delete")
  /\ cert = CertStart(<<>>)
  /\ proc = NoProcs
  /\ call \in {[fn |-> "row", row |-> row] : row \in ScoreRows}

NextScore == ScoreRow

SpecScore == InitScore /\ [][NextScore]_vars

\* One doctor scan of the active records of a store.
InitDoctor ==
  /\ db = Current(NoRows)
  /\ last = NoLast
  /\ ncmd = 0
  /\ retry = RetryStart
  /\ conc = ConcStart
  /\ rw = RwStart("delete")
  /\ cert = CertStart(<<>>)
  /\ proc = NoProcs
  /\ call \in {[fn |-> "rows", rows |-> loadActiveMemories(records)] :
                 records \in DoctorStores}

NextDoctor == DoctorScan

SpecDoctor == InitDoctor /\ [][NextDoctor]_vars

\* One comparison of a stored text with a candidate text.
InitCompare ==
  /\ db = Current(OneRow)
  /\ last = NoLast
  /\ ncmd = 0
  /\ retry = RetryStart
  /\ conc = ConcStart
  /\ rw = RwStart("delete")
  /\ cert = CertStart(<<>>)
  /\ proc = NoProcs
  /\ call \in {[fn |-> "texts", stored |-> stored, candidate |-> candidate] :
                 stored \in CompareTexts, candidate \in CompareTexts}

NextCompare == CompareFact

SpecCompare == InitCompare /\ [][NextCompare]_vars

\* One merge of two result sets.
InitMerge ==
  /\ db = Current(TwoRows)
  /\ last = NoLast
  /\ ncmd = 0
  /\ retry = RetryStart
  /\ conc = ConcStart
  /\ rw = RwStart("delete")
  /\ cert = CertStart(<<>>)
  /\ proc = NoProcs
  /\ call \in {[fn |-> "sets", primary |-> primary, secondary |-> secondary] :
                 primary \in ResultSets, secondary \in ResultSets}

NextMerge ==
  \/ MergeSuggestion
  \/ MergeSweep

SpecMerge == InitMerge /\ [][NextMerge]_vars

\* Two processes open one uninitialized store in write mode.
InitOpen ==
  /\ db = Uninitialized
  /\ last = NoLast
  /\ ncmd = 0
  /\ retry = RetryStart
  /\ conc = ConcStart
  /\ rw = RwStart("delete")
  /\ cert = CertStart(<<>>)
  /\ call = NoCall
  /\ proc = OpenStart

NextOpen ==
  \E p \in Openers :
    \/ CheckVersion(p)
    \/ BeginImmediate(p)
    \/ BeginBusy(p)
    \/ BeginFails(p)
    \/ MigrationStatement(p)
    \/ CommitMigration(p)

SpecOpen == InitOpen /\ [][NextOpen]_vars

\* Two imports of one entry into a current store.
InitImports ==
  /\ db \in {Current(NoRows), Current(OneRow), Current(TwoRows)}
  /\ last = NoLast
  /\ ncmd = 0
  /\ retry = RetryStart
  /\ conc = ConcStart
  /\ rw = RwStart("delete")
  /\ cert = CertStart(<<>>)
  /\ call = NoCall
  /\ proc \in {ImportsStart(db, entry) : entry \in SharedEntries}

NextImports ==
  \E p \in Importers :
    \/ FindDuplicate(p)
    \/ DetectConflicts(p)
    \/ InsertEntry(p)

SpecImports == InitImports /\ [][NextImports]_vars

(***************************************************************************)
(* Properties                                                              *)
(***************************************************************************)
Migrated(d) == getUserVersion(d) >= SCHEMA_VERSION /\ isSchemaReady(d)

Vocabulary ==
  UNION {Words(t) : t \in ContentVals \cup TagVals \cup ContextVals \cup {<<"auth">>, <<"cache">>}}

\* C1: on a migrated store, whatever adds, imports, updates, deprecations and
\* deletes have run, the full-text index holds exactly one entry per row of
\* memories, carrying the row's current (content, tags, context), and no entry
\* for an id that is not in the table.
C1_IndexMirrorsTable ==
  Migrated(db) => db.fts = SetToBag(AllShadows(db.rows))

\* An update has just rewritten a row on a migrated store that still holds
\* another row.
C1_Witness ==
  /\ Migrated(db)
  /\ last.op = "update" /\ last.found # {}
  /\ Cardinality(DOMAIN db.rows) >= 2

\* The words of a row's content before the update that its indexed text no
\* longer holds, and the words of its new content the old content lacked.
OldOnlyTerms(i) == Words(last.old[i]) \ ShadowWords(Shadow(i, db.rows[i]))

NewOnlyTerms(i) == Words(db.rows[i].content) \ Words(last.old[i])

\* C2: after an update of a record with new content, an index query for a term
\* found only in the old content does not return the record, and an index
\* query for a term found only in the new content returns it.
C2_UpdateResyncsIndex ==
  (last.op = "update" /\ last.err = "none") =>
    \A i \in last.found :
      /\ \A t \in OldOnlyTerms(i) : i \notin FtsMatch(db, t)
      /\ \A t \in NewOnlyTerms(i) : i \in FtsMatch(db, t)

\* An update replaced a row's content by one that shares no word with it.
C2_Witness ==
  /\ last.op = "update"
  /\ \E i \in last.found : OldOnlyTerms(i) # {} /\ NewOnlyTerms(i) # {}

\* C3: after a delete of a record, no index query returns a row with the
\* record's id, whichever term matched it before.
C3_DeleteClearsIndex ==
  (last.op = "delete" /\ last.err = "none") =>
    \A i \in last.ids : \A t \in Vocabulary : i \notin FtsMatch(db, t)

\* A delete removed an indexed row and left another one behind.
C3_Witness ==
  /\ last.op = "delete"
  /\ DOMAIN last.old # {}
  /\ DOMAIN db.rows # {}

\* C5: running the migration on the store a migration left changes nothing:
\* same schema version, columns, tables, triggers, index and rows; and the
\* first run keeps the rows.
C5_MigrationIdempotent ==
  LET r1 == migrateSchema(db, 0)
      r2 == migrateSchema(r1.db, 0)
  IN  /\ r1.ok /\ r2.ok
      /\ r2.db = r1.db
      /\ r1.db.rows = db.rows
      /\ Migrated(r1.db)

\* A migrate command has just migrated a store that holds rows.
C5_Witness ==
  /\ last.op = "migrate" /\ last.ran
  /\ DOMAIN db.rows # {}

\* C6: an open whose migration fails at any statement reports the failure and
\* leaves the store (tables, columns, triggers, index, version, rows) as it was.
C6_FailedMigrationRolledBack ==
  [][last'.err = "sqlite" => (db' = db /\ ~last'.served)]_vars

\* A migration failed after statements of its transaction had changed a store
\* that holds rows.
C6_Witness ==
  /\ last.err = "sqlite" /\ last.dirty
  /\ DOMAIN db.rows # {}

C8_StaleReadFails ==
  [][(last'.op \in readCommands /\ ~Migrated(db) /\ last'.err # "sqlite") =>
       (last'.err = "outdated" /\ ~last'.served)]_vars

\* C8 amended: a read-mode open of a store that has a memories table but lacks
\* the full-text table or a required column ends with the run-migration error,
\* serves no read and leaves the store as it was.
C8_StructurallyStaleReadFails ==
  [][(/\ last'.op \in readCommands
      /\ "memories" \in db.tables
      /\ ("memories_fts" \notin db.tables \/ ~(RequiredColumns \subseteq db.columns))) =>
       (last'.err = "outdated" /\ ~last'.served /\ db' = db)]_vars

\* A query ended with the run-migration error on a store that holds rows.
C8_Witness ==
  /\ last.op = "query" /\ last.err = "outdated"
  /\ DOMAIN db.rows # {}

\* C9 as stated: the operation is attempted at most 6 times.
C9_AtMostSixAttempts == retry.executions <= 6

\* C9 amended: an operation that keeps finding the store locked is executed at
\* most 1 + BUSY_RETRIES = 7 times, then the lock error is thrown; the k-th wait
\* is BUSY_BACKOFF_MS * 2^(k-1) ms kept within 1..1000, each longer than the
\* one before.
C9_BoundedRetryWithBackoff ==
  /\ retry.executions <= BUSY_RETRIES + 1
  /\ Len(retry.waits) = retry.attempts /\ retry.attempts <= BUSY_RETRIES
  /\ \A k \in DOMAIN retry.waits :
       /\ retry.waits[k] = BUSY_BACKOFF_MS * 2 ^ (k - 1)
       /\ retry.waits[k] >= 1 /\ retry.waits[k] <= 1000
       /\ k > 1 => retry.waits[k] = 2 * retry.waits[k - 1]
  /\ (retry.executions = BUSY_RETRIES + 1 /\ retry.pc # "returned") =>
       (retry.pc = "thrown" /\ retry.thrown = retry.errs[Len(retry.errs)])

\* The store was locked at every one of seven executions and the last lock
\* error was thrown.
C9_Witness ==
  /\ retry.pc = "thrown"
  /\ retry.executions = BUSY_RETRIES + 1
  /\ \A k \in DOMAIN retry.errs : isBusyError(retry.errs[k])

\* What makes an error a lock error, read off the error value.
LockError(err) ==
  /\ err.object
  /\ \/ err.code \in {"SQLITE_BUSY", "SQLITE_LOCKED"}
     \/ includes(toLowerCase(err.message), <<"database", "is", "locked">>)

\* C10: an execution that fails with an error other than busy/locked is the
\* last one: its error is thrown at once, with no wait after it; when it is the
\* first failure the operation was executed exactly once.
C10_OtherErrorsNotRetried ==
  \A k \in DOMAIN retry.errs :
    ~LockError(retry.errs[k]) =>
      /\ k = Len(retry.errs)
      /\ retry.pc = "thrown" /\ retry.thrown = retry.errs[k]
      /\ retry.executions = k /\ Len(retry.waits) = k - 1

\* A constraint violation was thrown by the first and only execution.
C10_Witness ==
  /\ retry.pc = "thrown" /\ retry.thrown = ConstraintErr
  /\ retry.executions = 1 /\ retry.waits = <<>>

ConcDone ==
  \A s \in Sessions : conc.sess[s].pc = "idle" /\ conc.sess[s].n = MaxInserts

AckedCount == Cardinality(conc.sess[1].acked) + Cardinality(conc.sess[2].acked)

\* C4 as stated: every insert of both sessions succeeds and the rows number the
\* inserts issued.
C4_EveryInsertSucceeds ==
  /\ \A s \in Sessions : conc.sess[s].failed = {}
  /\ ConcDone => Cardinality(DOMAIN conc.rows) = 2 * MaxInserts

\* C4 amended: every insert either succeeds, possibly after backoff, or fails
\* with the lock error after 1 + BUSY_RETRIES executions; the rows number the
\* inserts that succeeded and each of those has its row.
C4_NoAckedInsertLost ==
  /\ Cardinality(DOMAIN conc.rows) = AckedCount
  /\ \A s \in Sessions :
       /\ \A a \in conc.sess[s].acked :
            \E id \in DOMAIN conc.rows : conc.rows[id] = <<s, a[1]>>
       /\ \A f \in conc.sess[s].failed : f[2] = BUSY_RETRIES + 1
       /\ conc.sess[s].pc = "idle" =>
            {a[1] : a \in conc.sess[s].acked} \cup {f[1] : f \in conc.sess[s].failed}
              = 1 .. conc.sess[s].n

\* Both sessions are done: one insert gave up on the lock, another went through
\* after backing off.
C4_Witness ==
  /\ ConcDone
  /\ \E s \in Sessions : conc.sess[s].failed # {}
  /\ \E s \in Sessions : \E a \in conc.sess[s].acked : a[2]

\* C11: a read session that runs while another process holds an uncommitted
\* write transaction completes without waiting for the writer and returns
\* only committed data.
C11_ReaderNeverWaits ==
  /\ ~rw.reader.waited
  /\ rw.reader.pc # "failed"
  /\ rw.reader.pc = "done" => rw.reader.result <= rw.committed

\* The rows present both before and after a step.
Kept == DOMAIN db.rows \cap DOMAIN db'.rows

\* C12: a record's update_count never decreases: no step of any command
\* leaves a record with a smaller update_count than it had before the step.
C12_UpdateCountNeverDecreases ==
  [][\A i \in Kept : db'.rows[i].update_count >= db.rows[i].update_count]_vars

\* A record that has been counted up twice: deprecated once, then updated.
C12_Witness ==
  /\ last.op \in {"update", "deprecate"} /\ last.err = "none"
  /\ \E i \in last.found : db.rows[i].update_count >= 2

\* Whether the invocation that ends a step was a successful update or
\* deprecate that targeted record i.
AppliedTo(i) ==
  /\ last'.op \in {"update", "deprecate"}
  /\ last'.err = "none"
  /\ i \in last'.ids

\* C13: add creates its record with status active and update_count 0, and
\* every step adds to a record's update_count exactly one when it is a
\* successful update or deprecate of that record and nothing otherwise, so the
\* count of a record made by add is the number of such operations since.
C13_CountEqualsApplied ==
  [][/\ (last'.op = "add" /\ last'.err = "none") =>
          \A i \in last'.ids :
            /\ i \notin DOMAIN db.rows
            /\ i \in DOMAIN db'.rows
            /\ db'.rows[i].status = "active"
            /\ db'.rows[i].update_count = 0
     /\ \A i \in Kept :
          db'.rows[i].update_count =
            db.rows[i].update_count + (IF AppliedTo(i) THEN 1 ELSE 0)]_vars

\* Record 2 active with update_count 1 right after an update: it was made in
\* this run (no initial store holds an active record 2), then updated once.
C13_Witness ==
  /\ last.op = "update" /\ last.err = "none"
  /\ 2 \in last.found
  /\ db.rows[2].status = "active"
  /\ db.rows[2].update_count = 1

C20_DefaultReadsActiveOnly ==
  (/\ last.op \in {"query", "list", "export"}
   /\ last.filters = NoFilters) =>
    \A i \in last.ids : i \in DOMAIN db.rows /\ db.rows[i].status = "active"

\* A default list or export of a store that holds a deprecated record returned
\* the active one and left the deprecated one out.
C20_Witness ==
  /\ last.op \in {"list", "export"} /\ last.filters = NoFilters
  /\ last.ids # {}
  /\ \E i \in DOMAIN db.rows \ last.ids : db.rows[i].status # "active"

\* The rows a step created.
Created == DOMAIN db'.rows \ DOMAIN db.rows

\* Whether row i of the store after the step repeats the (content, tags,
\* context) of an active row stored before it.
RepeatsActive(i) ==
  \E j \in DOMAIN db'.rows :
    /\ j < i
    /\ db'.rows[j].status = "active"
    /\ db'.rows[j].content = db'.rows[i].content
    /\ db'.rows[j].tags = db'.rows[i].tags
    /\ db'.rows[j].context = db'.rows[i].context

\* The active rows of the store before the step that hold entry e's
\* (content, tags, context).
Twins(e) ==
  {j \in DOMAIN db.rows :
     /\ db.rows[j].status = "active"
     /\ db.rows[j].content = e.content
     /\ db.rows[j].tags = e.tags
     /\ db.rows[j].context = e.context}

WithStatus(results, status) == {k \in DOMAIN results : results[k].status = status}

\* C18: an import reports one result per entry of its file, in order, each
\* success, conflict or skip; the rows it creates are exactly the ids of its
\* success results, one row per success; and entries after a skipped or
\* conflicting one are still processed.
C18_OneOutcomePerEntry ==
  [][(last'.op = "import" /\ last'.err = "none") =>
       LET res == last'.results
       IN  /\ Len(res) = Len(last'.file)
           /\ \A k \in DOMAIN res :
                /\ res[k].entry = last'.file[k]
                /\ res[k].status \in {"success", "conflict", "skip"}
                /\ res[k].status = "success" =>
                     /\ res[k].id \in Created
                     /\ db'.rows[res[k].id].content = res[k].entry.content
           /\ Created = {res[k].id : k \in WithStatus(res, "success")}
           /\ Cardinality(Created) = Cardinality(WithStatus(res, "success"))]_vars

\* An import of two entries reported the first as skipped or conflicting and
\* then created a row for the second.
C18_Witness ==
  /\ last.op = "import" /\ last.err = "none"
  /\ Len(last.results) = 2
  /\ last.results[1].status \in {"skip", "conflict"}
  /\ last.results[2].status = "success"
  /\ last.results[2].id \in DOMAIN db.rows

\* C15: every record whose status is superseded_by names in superseded_by the
\* id of another record of the store, never its own.
C15_SupersededByAnotherRecord ==
  \A i \in DOMAIN db.rows :
    db.rows[i].status = "superseded_by" =>
      db.rows[i].superseded_by \in (DOMAIN db.rows \ {i})

\* C19: an update, deprecate or delete reports each id it was given, as
\* succeeded when the store held a record with that id and as not found when
\* it held none, and is applied to every id that was held.
C19_EachIdReported ==
  [][(last'.op \in {"update", "deprecate", "delete"} /\ last'.err = "none") =>
       /\ last'.found = last'.ids \cap DOMAIN db.rows
       /\ last'.not_found = last'.ids \ DOMAIN db.rows
       /\ \A i \in last'.ids \cap DOMAIN db.rows :
            IF last'.op = "delete" THEN i \notin DOMAIN db'.rows
            ELSE db'.rows[i].update_count = db.rows[i].update_count + 1]_vars

\* C16: every certainty a command prints is verified, inferred or speculative.
C16_PrintedCertaintyCanonical ==
  \A i \in DOMAIN cert.out : cert.out[i] \in {"verified", "inferred", "speculative"}

\* C21: a search whose text yields no token runs no MATCH statement and gives
\* back no row: the query returns none, the conflict search reports none and
\* --match selects none, whatever the store holds and whatever the filters.
C21_NoTokensNoRows ==
  (call.fn \in {"query", "conflicts", "match"} /\ call.tokens = <<>>) =>
    /\ ~call.issued
    /\ call.rows = {}

\* A query of only a stopword, with deprecated records included, on a store
\* that holds records: every record would pass the filters.
C21_Witness ==
  /\ call.fn = "query"
  /\ call.text = <<"the">>
  /\ call.tokens = <<>>
  /\ call.filters.includeDeprecated
  /\ Cardinality(DOMAIN db.rows) = 2
  /\ call.rows = {}

\* C22: a query that finds no row, whether its text had tokens or not, prints
\* a diagnostic payload that holds the derived tokens, the filters in force
\* and hints, never a bare empty list; the payload of a zero-token query
\* differs from the payload of a query that matched nothing.
C22_EmptyQueryPrintsDiagnostics ==
  (call.fn = "handleQuery" /\ call.text # <<>> /\ call.rows = {}) =>
    /\ call.printed.kind = "diagnostics"
    /\ call.printed.derived_terms = call.tokens
    /\ call.printed.filters.include_deprecated = call.filters.includeDeprecated
    /\ call.printed.hints # {}
    /\ (call.tokens = <<>>) <=> (call.printed.derived_terms = <<>>)

\* C23: with everything else about a row fixed, its score does not go down
\* when its update_count goes up, and does not go up when the days since its
\* last update go up.
C23_ScoreMonotone ==
  call.fn = "scoreMemory" =>
    /\ \A n \in UpdateCounts :
         n >= call.row.update_count =>
           scoreMemory([call.row EXCEPT !.update_count = n]) >= call.score
    /\ call.row.updated_at # <<>> =>
         \A d \in AgeDays :
           d >= call.row.updated_at[1] =>
             scoreMemory([call.row EXCEPT !.updated_at = <<d>>]) <= call.score

\* A row updated 90 days ago, 9 times: one update more scores higher, one
\* day more scores lower.
C23_Witness ==
  /\ call.fn = "scoreMemory"
  /\ call.row.update_count = 9
  /\ call.row.updated_at = <<90>>
  /\ scoreMemory([call.row EXCEPT !.update_count = 10]) > call.score
  /\ scoreMemory([call.row EXCEPT !.updated_at = <<91>>]) < call.score

\* The rows scanned before row k that are near duplicates of it: similarity
\* at or over the threshold, and no exact duplicates of each other.
EarlierPartners(rows, k) ==
  {j \in 1 .. (k - 1) :
     /\ Similarity(rows[j], rows[k]) >= NEAR_DUPLICATE_THRESHOLD
     /\ duplicateKey(rows[j]) # duplicateKey(rows[k])}

Findings == {call.scan.findings[n] : n \in DOMAIN call.scan.findings}

\* C24 as stated: any two active records of similarity 0.78 or more that are
\* no exact duplicates of each other are reported as a near-duplicate pair
\* with that similarity.
C24_EveryNearPairReported ==
  call.fn = "doctor" =>
    \A k \in DOMAIN call.rows : \A j \in EarlierPartners(call.rows, k) :
      \E f \in Findings :
        /\ {f.keep_id, f.duplicate_id} = {call.rows[j].id, call.rows[k].id}
        /\ f.similarity = Similarity(call.rows[j], call.rows[k])

\* C24 amended: a record that has tokens and has a near duplicate among the
\* records scanned before it is reported once, as the duplicate of the one
\* of those that is most similar to it, with that similarity.
C24_BestEarlierPartnerReported ==
  call.fn = "doctor" =>
    \A k \in DOMAIN call.rows :
      (termSet(call.rows[k]) # <<>> /\ EarlierPartners(call.rows, k) # {}) =>
        /\ Cardinality({n \in DOMAIN call.scan.findings :
             call.scan.findings[n].duplicate_id = call.rows[k].id}) = 1
        /\ \E f \in Findings, j \in EarlierPartners(call.rows, k) :
             /\ f.duplicate_id = call.rows[k].id
             /\ f.keep_id = call.rows[j].id
             /\ f.similarity = Similarity(call.rows[j], call.rows[k])
             /\ \A i \in EarlierPartners(call.rows, k) :
                  Similarity(call.rows[i], call.rows[k]) <= f.similarity

\* Three records that are near duplicates of one another, the last scanned
\* more similar to the second than to the first: it is reported with the
\* second.
C24_Witness ==
  /\ call.fn = "doctor"
  /\ Len(call.rows) = 3
  /\ EarlierPartners(call.rows, 3) = {1, 2}
  /\ Similarity(call.rows[1], call.rows[3]) < Similarity(call.rows[2], call.rows[3])
  /\ \E f \in Findings :
       f.duplicate_id = call.rows[3].id /\ f.keep_id = call.rows[2].id

Negated(text) == Words(text) \cap {"not", "no", "never", "without", "cannot", "can't"} # {}

\* C25: a comparison reports a conflict exactly when one text holds a
\* negation word and the other none, or the similarity it reports is below
\* 0.35; so texts that differ in negation conflict however similar they are.
C25_ConflictIffNegationOrDissimilar ==
  call.fn = "compareFact" =>
    /\ call.result.similarity =
         jaccardSimilarity(Words(setFromTerms(call.stored)),
                           Words(setFromTerms(call.candidate)))
    /\ call.result.conflict <=>
         \/ Negated(call.stored) # Negated(call.candidate)
         \/ call.result.similarity < 350

\* Two texts of similarity 0.75 that differ in a negation word: a conflict.
C25_Witness ==
  /\ call.fn = "compareFact"
  /\ Negated(call.candidate) /\ ~Negated(call.stored)
  /\ call.result.similarity = 750
  /\ call.result.conflict

\* The ids both merged sets hold.
InBoth == IdsOf(call.primary) \cap IdsOf(call.secondary)

\* C27 as stated: for an id that the index-found and the hint-found set both
\* hold, the merged score is the higher of the two scores plus 12.
C27_HigherScorePlusBonus ==
  call.fn = "mergeSuggestion" =>
    \A id \in InBoth :
      RowOf(call.merged, id).score =
        MaxOf(RowOf(call.primary, id).score, RowOf(call.secondary, id).score) + 12000

\* C27 amended: for such an id suggest's merged score is the larger of the
\* index-found score and the hint-found score plus 12; sweep's merge of two
\* rows of one id gives the higher of the two scores, without a bonus.
C27_HigherOfIndexAndBoostedHint ==
  /\ call.fn = "mergeSuggestion" =>
       \A id \in InBoth :
         RowOf(call.merged, id).score =
           MaxOf(RowOf(call.primary, id).score,
                 RowOf(call.secondary, id).score + 12000)
  /\ call.fn = "mergeSweepRows" =>
       call.merged[1].score = MaxOf(call.primary[1].score, call.secondary[1].score)

\* A record the index scored 2 and the hints 14: merged at 26, the hint's
\* score with the bonus.
C27_Witness ==
  /\ call.fn = "mergeSuggestion"
  /\ 1 \in InBoth
  /\ RowOf(call.primary, 1).score = 2000
  /\ RowOf(call.secondary, 1).score = 14000
  /\ RowOf(call.merged, 1).score = 26000

\* C28: a record whose status is deprecated or superseded_by is not active
\* after any step, whatever the command and whichever record it was given:
\* no add, update, deprecate, import or delete sets a status back to active.
C28_NeverBackToActive ==
  [][\A i \in Kept :
       db.rows[i].status \in {"deprecated", "superseded_by"} =>
         db'.rows[i].status \in {"deprecated", "superseded_by"}]_vars

\* Record 1 was superseded by record 2 and record 2 was then deleted:
\* record 1 is still superseded.
C28_Witness ==
  /\ last.op = "delete" /\ last.err = "none"
  /\ last.ids = {2}
  /\ 2 \notin DOMAIN db.rows
  /\ 1 \in DOMAIN db.rows
  /\ db.rows[1].status = "superseded_by"
  /\ db.rows[1].superseded_by = 2

\* The schema the file holds and the schema each process found are whole:
\* that of the uninitialized store or that of the migrated one, with the
\* memories table, the index table, the three triggers and the version.
WholeSchemas ==
  /\ db \in {Uninitialized, Current(NoRows)}
  /\ \A p \in Openers :
       proc.s[p].seen # <<>> => proc.s[p].seen[1] \in {Uninitialized, Current(NoRows)}
  /\ \A p \in Openers : proc.s[p].pc = "done" => db = Current(NoRows)

\* C29 as stated: both opens complete, neither fails, the store ends
\* schema-current and no half-migrated schema is seen.
C29_BothOpensComplete ==
  /\ WholeSchemas
  /\ \A p \in Openers : proc.s[p].pc # "failed"

\* C29 amended: an open either completes or fails with the lock error after
\* BEGIN IMMEDIATE found the store locked at each of its 1 + BUSY_RETRIES
\* executions, the other process then holding the lock; the file and what
\* each process reads are never half-migrated, and once an open has
\* completed the store is schema-current.
C29_OpensCompleteOrFailBusy ==
  /\ WholeSchemas
  /\ \A p \in Openers :
       proc.s[p].pc = "failed" =>
         /\ proc.s[p].err = "busy"
         /\ proc.s[p].attempts = BUSY_RETRIES
         /\ proc.s[p].k = 0

\* Both opens completed, each ran the migration to its COMMIT, one of them
\* after busy retries.
C29_Witness ==
  /\ \A p \in Openers :
       proc.s[p].pc = "done" /\ proc.s[p].k = Len(MigrationSteps)
  /\ \E p \in Openers : proc.s[p].attempts > 0
  /\ db = Current(NoRows)

\* The rows made since the imports began that hold the entry's (content,
\* tags, context).
ImportedTwins ==
  {i \in DOMAIN db.rows \ DOMAIN proc.before.rows :
     /\ db.rows[i].content = proc.entry.content
     /\ db.rows[i].tags = proc.entry.tags
     /\ db.rows[i].context = proc.entry.context}

\* C30: when both imports hold an entry whose (content, tags, context) no
\* active record had beforehand (and that no record conflicted with), at most
\* one row with it is created, and once both are done one has reported
\* success and the other a skip.
C30_OneRowPerImportedTriple ==
  (/\ findExactDuplicate(proc.before, proc.entry.content, proc.entry.tags,
                         proc.entry.context) = {}
   /\ detectPotentialConflicts(proc.before, proc.entry.content, proc.entry.tags,
                               proc.entry.context) = {}) =>
    /\ Cardinality(ImportedTwins) <= 1
    /\ (\A p \in Importers : proc.s[p].pc = "done") =>
         {proc.s[p].status : p \in Importers} = {"success", "skip"}

====
